---- MODULE Spec2Model ----
(***************************************************************************)
(* SecureNotes: the encrypted-note persistence pipeline.                   *)
(*   EncryptionService  (key store + field cipher, with the XOR fallback)  *)
(*   DatabaseService    (note store over the `notes` table)                *)
(*   NotePresenter, NoteList  (the list view and its presenter)            *)
(*   AuthService, App   (biometric authentication and the gate it forms)   *)
(* Strings are sequences of UTF-16 code units.  The native collaborators   *)
(* (keychain, AsyncStorage, RNAes, SQLite) are modelled at their boundary. *)
(***************************************************************************)
EXTENDS Integers, Sequences, FiniteSets, TLC

VARIABLES
    aesPresent,   \* NativeModules.RNAes offers encrypt/decrypt/pbkdf2
    keychain,     \* secret stored under KEYCHAIN_SERVICE (NoKey when absent)
    saltStore,    \* AsyncStorage[SALT_KEY] (NoSalt when absent)
    now,          \* the value Date.now() returns
    database,     \* DatabaseService.database: "null" or "open"
    nextId,       \* next AUTOINCREMENT id of the notes table
    rows,         \* the notes table: set of EncryptedNote rows
    tableExists,  \* whether the database file holds a notes table
    res,          \* how the last awaited call settled
    held,         \* the ciphertext a caller of EncryptionService keeps
    hist,         \* history: what earlier calls returned
    view,         \* NotePresenter.view: the registered observer (NoView: null)
    ui,           \* the presenter call in flight and the callbacks delivered
    notes,        \* NoteList: the `notes` state the list renders
    auth,         \* AuthService: the enabled flag and the keychain entry
    app,          \* App: its React state and the alert it shows
    pc,           \* overlapping callers: position of each
    loc           \* overlapping callers: locals of each

\* no observer registered; no presenter call made yet
NoView == 0
NoCall == [op |-> "none", id |-> 0, outcome |-> "none", observer |-> NoView,
           steady |-> FALSE]
NoUi == [pending |-> NoCall, last |-> NoCall, settledUnder |-> NoView,
         notified |-> {}]

\* the list before anything was loaded (loaded: onNotesLoaded has run)
NoNotes == [list |-> <<>>, loaded |-> FALSE]

\* biometric authentication never enabled; the application not started
NoAuth == [flag |-> FALSE, entry |-> FALSE]
NoApp == [mounted |-> FALSE, loading |-> TRUE, authenticated |-> FALSE,
          biometricAvailable |-> FALSE, biometricEnabled |-> FALSE,
          settingsVisible |-> FALSE,
          alert |-> "none", enabledAtStart |-> FALSE, passed |-> FALSE,
          lastAuth |-> "none"]

cryptoVars == <<aesPresent, keychain, saltStore>>
dbVars     == <<now, database, nextId, rows, tableExists>>
procVars   == <<pc, loc>>
uiVars     == <<view, ui>>
appVars    == <<notes, auth, app>>
vars == <<aesPresent, keychain, saltStore, now, database, nextId, rows,
          tableExists, res, held, hist, view, ui, notes, auth, app, pc, loc>>

----------------------------------------------------------------------------
(* Bounds of the model *)

MaxRnd  == 2      \* distinct outcomes of the 32 random key bytes
MaxSalt == 1      \* distinct outcomes of the 16 random salt bytes
MaxIv   == 2      \* distinct outcomes of the 16 random IV bytes
NumCallers == 2   \* calls of encrypt() in flight at the same time
MaxId   == 2      \* inserts into the notes table between two resets
NumViews == 2     \* observers that register with the presenter
MaxTime == 3      \* values of the millisecond clock

----------------------------------------------------------------------------
(* Outcomes of an operation that may throw *)

Ok(v) == [ok |-> TRUE, val |-> v]
Fail  == [ok |-> FALSE, val |-> <<>>]

----------------------------------------------------------------------------
(* JavaScript string primitives used by the fallback cipher *)

RECURSIVE Xor(_, _)
Xor(a, b) ==
    IF a = 0 THEN b
    ELSE IF b = 0 THEN a
    ELSE (((a % 2) + (b % 2)) % 2) + (2 * Xor(a \div 2, b \div 2))

B64Char(n) ==
    IF n < 26 THEN 65 + n
    ELSE IF n < 52 THEN 71 + n
    ELSE IF n < 62 THEN n - 4
    ELSE IF n = 62 THEN 43 ELSE 47

B64Index(c) ==
    IF c \in 65..90 THEN c - 65
    ELSE IF c \in 97..122 THEN c - 71
    ELSE IF c \in 48..57 THEN c + 4
    ELSE IF c = 43 THEN 62
    ELSE IF c = 47 THEN 63 ELSE 0 - 1

RECURSIVE B64Encode(_)
B64Encode(s) ==
    IF Len(s) = 0 THEN <<>>
    ELSE IF Len(s) = 1 THEN
        <<B64Char(s[1] \div 4), B64Char((s[1] % 4) * 16), 61, 61>>
    ELSE IF Len(s) = 2 THEN
        <<B64Char(s[1] \div 4), B64Char(((s[1] % 4) * 16) + (s[2] \div 16)),
          B64Char((s[2] % 16) * 4), 61>>
    ELSE
        <<B64Char(s[1] \div 4), B64Char(((s[1] % 4) * 16) + (s[2] \div 16)),
          B64Char(((s[2] % 16) * 4) + (s[3] \div 64)), B64Char(s[3] % 64)>>
        \o B64Encode(SubSeq(s, 4, Len(s)))

RECURSIVE B64Decode(_)
B64Decode(d) ==
    IF Len(d) < 2 THEN <<>>
    ELSE LET a == B64Index(d[1])
             b == B64Index(d[2])
             b1 == (a * 4) + (b \div 16)
         IN IF Len(d) = 2 THEN <<b1>>
            ELSE LET c == B64Index(d[3])
                     b2 == ((b % 16) * 16) + (c \div 4)
                 IN IF Len(d) = 3 THEN <<b1, b2>>
                    ELSE <<b1, b2, ((c % 4) * 64) + B64Index(d[4])>>
                         \o B64Decode(SubSeq(d, 5, Len(d)))

\* btoa: throws when a code unit is outside Latin-1
btoa(s) ==
    IF \E i \in 1..Len(s) : s[i] > 255 THEN Fail ELSE Ok(B64Encode(s))

IsAsciiSpace(c) == c \in {9, 10, 12, 13, 32}
NotAsciiSpace(c) == ~IsAsciiSpace(c)

StripPad(s) ==
    IF Len(s) > 0 /\ (Len(s) % 4) = 0 /\ s[Len(s)] = 61
    THEN IF s[Len(s) - 1] = 61 THEN SubSeq(s, 1, Len(s) - 2)
                               ELSE SubSeq(s, 1, Len(s) - 1)
    ELSE s

\* atob: forgiving-base64 decode, throws on anything that is not base64
atob(s) ==
    LET d == StripPad(SelectSeq(s, NotAsciiSpace))
    IN IF (Len(d) % 4) = 1 \/ \E i \in 1..Len(d) : B64Index(d[i]) < 0
       THEN Fail ELSE Ok(B64Decode(d))

Unreserved(c) ==
    \/ c \in 65..90 \/ c \in 97..122 \/ c \in 48..57
    \/ c \in {45, 95, 46, 33, 126, 42, 39, 40, 41}

HexChar(n) == IF n < 10 THEN 48 + n ELSE 55 + n
Pct(b) == <<37, HexChar(b \div 16), HexChar(b % 16)>>

RECURSIVE PctAll(_)
PctAll(bs) == IF bs = <<>> THEN <<>> ELSE Pct(bs[1]) \o PctAll(Tail(bs))

Utf8(cp) ==
    IF cp < 128 THEN <<cp>>
    ELSE IF cp < 2048 THEN <<192 + (cp \div 64), 128 + (cp % 64)>>
    ELSE IF cp < 65536 THEN
        <<224 + (cp \div 4096), 128 + ((cp \div 64) % 64), 128 + (cp % 64)>>
    ELSE <<240 + (cp \div 262144), 128 + ((cp \div 4096) % 64),
           128 + ((cp \div 64) % 64), 128 + (cp % 64)>>

IsHighSurrogate(c) == c \in 55296..56319
IsLowSurrogate(c)  == c \in 56320..57343

\* encodeURIComponent: throws URIError on a lone surrogate
RECURSIVE encodeURIComponent(_)
encodeURIComponent(s) ==
    IF s = <<>> THEN Ok(<<>>)
    ELSE IF IsLowSurrogate(s[1]) THEN Fail
    ELSE IF IsHighSurrogate(s[1]) THEN
        IF Len(s) < 2 THEN Fail
        ELSE IF ~IsLowSurrogate(s[2]) THEN Fail
        ELSE LET cp == 65536 + ((s[1] - 55296) * 1024) + (s[2] - 56320)
                 rest == encodeURIComponent(SubSeq(s, 3, Len(s)))
             IN IF rest.ok THEN Ok(PctAll(Utf8(cp)) \o rest.val) ELSE Fail
    ELSE LET rest == encodeURIComponent(Tail(s))
             head == IF Unreserved(s[1]) THEN <<s[1]>> ELSE PctAll(Utf8(s[1]))
         IN IF rest.ok THEN Ok(head \o rest.val) ELSE Fail

----------------------------------------------------------------------------
(* EncryptionService: constants *)

IV_SIZE  == 16
KEY_SIZE == 32

\* "SecureNotesDevKey"
FallbackKey ==
    <<83, 101, 99, 117, 114, 101, 78, 111, 116, 101, 115, 68, 101, 118, 75, 101, 121>>

NoKey  == <<>>
NoSalt == 0

\* data.charCodeAt(i) ^ key.charCodeAt(i % key.length), for every i
XorWithFallbackKey(data) ==
    [i \in 1..Len(data) |->
        Xor(data[i], FallbackKey[((i - 1) % Len(FallbackKey)) + 1])]

simpleFallbackEncrypt(data) ==
    LET result == XorWithFallbackKey(data)
        first == btoa(result)
    IN IF first.ok THEN first
       ELSE LET uri == encodeURIComponent(result)
            IN IF uri.ok THEN btoa(uri.val) ELSE Fail

\* decodeURIComponent(atob(encrypted)) re-runs the atob that has just thrown,
\* so the catch-all returns the input as it is
simpleFallbackDecrypt(encrypted) ==
    LET data == atob(encrypted)
    IN IF data.ok THEN XorWithFallbackKey(data.val) ELSE encrypted

----------------------------------------------------------------------------
(* The native collaborators of EncryptionService, at their boundary:       *)
(* an ideal cipher (decryption succeeds exactly under the key and IV of    *)
(* the encryption) and an injective key derivation.                        *)

AesTag == 100000

Pbkdf2(randomKey, salt) == <<randomKey, salt>>

AesEncrypt(data, key, iv) == <<AesTag>> \o key \o <<iv.id>> \o data

AesDecrypt(c, key, iv) ==
    IF /\ Len(c) >= 4
       /\ c[1] = AesTag
       /\ SubSeq(c, 2, 3) = key
       /\ c[4] = iv.id
    THEN Ok(SubSeq(c, 5, Len(c)))
    ELSE Fail

----------------------------------------------------------------------------
(* EncryptionService, each method run to completion.  rk, rs and ivId are  *)
(* the outcomes of the Math.random() loops of the call.                    *)

getSalt(stored, rs) == IF stored # NoSalt THEN stored ELSE rs

getEncryptionKeyAlways(kc, salt, aes, rk, rs) ==
    LET s == getSalt(salt, rs)
        key == IF aes THEN Pbkdf2(rk, s) ELSE <<rk, NoSalt>>
    IN [key |-> key, keychain |-> key, saltStore |-> s, generated |-> TRUE]

getEncryptionKey(kc, salt, aes, rk, rs) ==
    IF kc # NoKey
    THEN [key |-> kc, keychain |-> kc, saltStore |-> salt, generated |-> FALSE]
    ELSE LET s == getSalt(salt, rs)
             key == IF aes THEN Pbkdf2(rk, s) ELSE <<rk, NoSalt>>
         IN [key |-> key, keychain |-> key, saltStore |-> s, generated |-> TRUE]

NewIv(ivId) == [id |-> ivId, len |-> IV_SIZE * 2]

encrypt(data, key, aes, ivId) ==
    LET iv == NewIv(ivId)
        enc == IF aes THEN Ok(AesEncrypt(data, key, iv))
                      ELSE simpleFallbackEncrypt(data)
    IN [ok |-> enc.ok, encrypted |-> enc.val, iv |-> iv]

\* the decrypt() of the EncryptionService without fallback cipher: the IV is
\* refused when absent or shorter than 16 characters; what the native
\* Aes.decrypt does with an IV that is not 16 bytes of hexadecimal is the
\* platform's choice (native: "rejects" or "resolves" with a damaged text)
Garbled == <<63>>
decryptVariant(encrypted, iv, key, aes, native) ==
    IF iv.len = 0 \/ iv.len < 16 THEN Fail
    ELSE IF ~aes THEN Fail
    ELSE IF iv.len = IV_SIZE * 2 THEN AesDecrypt(encrypted, key, iv)
    ELSE IF native = "rejects" THEN Fail
    ELSE Ok(Garbled)

decrypt(encrypted, iv, key, aes) ==
    IF iv.len = 0 \/ iv.len # IV_SIZE * 2 THEN Fail
    ELSE IF aes THEN AesDecrypt(encrypted, key, iv)
    ELSE Ok(simpleFallbackDecrypt(encrypted))

----------------------------------------------------------------------------
(* Calls of EncryptionService made one after another *)

Rnds  == 1..MaxRnd
Salts == 1..MaxSalt
IvIds == 1..MaxIv

\* a call draws key bytes only when the keychain holds no key, and salt
\* bytes only when, in addition, no salt is stored
KeyDraws  == IF keychain = NoKey THEN Rnds ELSE {1}
SaltDraws == IF keychain = NoKey /\ saltStore = NoSalt THEN Salts ELSE {1}

\* "", "T", "\0C", "e-acute", "euro sign", two CJK characters, a lone surrogate
CipherStrings ==
    {<<>>, <<84>>, <<0, 67>>, <<233>>, <<8364>>, <<26085, 26412>>, <<55357>>}

NoIv   == [id |-> 0, len |-> 0]
NoHeld == [some |-> FALSE, data |-> <<>>, encrypted |-> <<>>, iv |-> NoIv,
           key |-> NoKey]
NoRes  == [op |-> "none", ok |-> TRUE, key |-> NoKey, before |-> NoKey,
           generated |-> FALSE, val |-> <<>>, iv |-> NoIv]
NoHist == [firstKey |-> NoKey]

FirstKey(k) == IF hist.firstKey = NoKey THEN k ELSE hist.firstKey

CallGetEncryptionKey(rk, rs) ==
    LET g == getEncryptionKey(keychain, saltStore, aesPresent, rk, rs)
    IN /\ keychain' = g.keychain
       /\ saltStore' = g.saltStore
       /\ res' = [NoRes EXCEPT !.op = "getEncryptionKey", !.key = g.key,
                               !.before = keychain, !.generated = g.generated]
       /\ hist' = [hist EXCEPT !.firstKey = FirstKey(g.key)]
       /\ UNCHANGED <<uiVars, appVars, aesPresent, held, dbVars, procVars>>

CallEncrypt(data, rk, rs, ivId) ==
    LET g == getEncryptionKey(keychain, saltStore, aesPresent, rk, rs)
        e == encrypt(data, g.key, aesPresent, ivId)
    IN /\ keychain' = g.keychain
       /\ saltStore' = g.saltStore
       /\ res' = [NoRes EXCEPT !.op = "encrypt", !.ok = e.ok, !.key = g.key,
                               !.before = keychain, !.generated = g.generated,
                               !.val = e.encrypted, !.iv = e.iv]
       /\ held' = IF e.ok
                  THEN [some |-> TRUE, data |-> data, encrypted |-> e.encrypted,
                        iv |-> e.iv, key |-> g.key]
                  ELSE held
       /\ hist' = [hist EXCEPT !.firstKey = FirstKey(g.key)]
       /\ UNCHANGED <<uiVars, appVars, aesPresent, dbVars, procVars>>

\* decrypt(held.encrypted, held.iv): the ciphertext with its original IV
CallDecrypt(rk, rs) ==
    /\ held.some
    /\ LET g == getEncryptionKey(keychain, saltStore, aesPresent, rk, rs)
           d == decrypt(held.encrypted, held.iv, g.key, aesPresent)
       IN /\ keychain' = g.keychain
          /\ saltStore' = g.saltStore
          /\ res' = [NoRes EXCEPT !.op = "decrypt", !.ok = d.ok, !.key = g.key,
                                  !.before = keychain,
                                  !.generated = g.generated, !.val = d.val]
          /\ hist' = [hist EXCEPT !.firstKey = FirstKey(g.key)]
    /\ UNCHANGED <<uiVars, appVars, aesPresent, held, dbVars, procVars>>

resetEncryptionKey ==
    /\ keychain' = NoKey
    /\ saltStore' = NoSalt

CallResetEncryptionKey ==
    /\ resetEncryptionKey
    /\ res' = [NoRes EXCEPT !.op = "resetEncryptionKey", !.before = keychain]
    /\ hist' = NoHist
    /\ UNCHANGED <<uiVars, appVars, aesPresent, held, dbVars, procVars>>

InitCipher ==
    /\ aesPresent \in BOOLEAN
    /\ keychain = NoKey
    /\ saltStore = NoSalt
    /\ now = 1
    /\ database = "null"
    /\ nextId = 1
    /\ rows = {}
    /\ tableExists = FALSE
    /\ view = NoView
    /\ notes = NoNotes
    /\ auth = NoAuth
    /\ app = NoApp
    /\ ui = NoUi
    /\ res = NoRes
    /\ held = NoHeld
    /\ hist = NoHist
    /\ pc = <<>>
    /\ loc = <<>>

NextCipher ==
    \/ \E rk \in KeyDraws, rs \in SaltDraws : CallGetEncryptionKey(rk, rs)
    \/ \E data \in CipherStrings, rk \in KeyDraws, rs \in SaltDraws, ivId \in IvIds :
          CallEncrypt(data, rk, rs, ivId)
    \/ \E rk \in KeyDraws, rs \in SaltDraws : CallDecrypt(rk, rs)
    \/ CallResetEncryptionKey

SpecCipher == InitCipher /\ [][NextCipher]_vars

----------------------------------------------------------------------------
(* Overlapping calls of encrypt(): one action per resumption after an      *)
(* await.  Work between two awaits runs without interruption.              *)

Callers == 1..NumCallers

\* "T"
CallerData == <<84>>

NoLoc == [key |-> NoKey, salt |-> NoSalt, encrypted |-> <<>>, iv |-> NoIv]

\* encrypt() is called: getEncryptionKey() issues Keychain.getGenericPassword
StartEncrypt(p) ==
    /\ pc[p] = "start"
    /\ pc' = [pc EXCEPT ![p] = "getGenericPassword"]
    /\ UNCHANGED <<uiVars, appVars, cryptoVars, dbVars, res, held, hist, loc>>

\* Keychain.getGenericPassword resolves
GetGenericPasswordResolves(p) ==
    /\ pc[p] = "getGenericPassword"
    /\ IF keychain # NoKey
       THEN /\ loc' = [loc EXCEPT ![p].key = keychain]
            /\ pc' = [pc EXCEPT ![p] = "haveKey"]
       ELSE /\ pc' = [pc EXCEPT ![p] = "getItem"]
            /\ UNCHANGED loc
    /\ UNCHANGED <<uiVars, appVars, cryptoVars, dbVars, res, held, hist>>

\* the random key is drawn and derived; Keychain.setGenericPassword is issued
DeriveKey(p, salt, rk) ==
    [loc EXCEPT ![p].salt = salt,
                ![p].key = IF aesPresent THEN Pbkdf2(rk, salt)
                                         ELSE <<rk, NoSalt>>]

\* getSalt: AsyncStorage.getItem resolves
GetItemResolves(p, rs, rk) ==
    /\ pc[p] = "getItem"
    /\ IF saltStore # NoSalt
       THEN /\ loc' = DeriveKey(p, saltStore, rk)
            /\ pc' = [pc EXCEPT ![p] = "setGenericPassword"]
       ELSE /\ loc' = [loc EXCEPT ![p].salt = rs]
            /\ pc' = [pc EXCEPT ![p] = "setItem"]
    /\ UNCHANGED <<uiVars, appVars, cryptoVars, dbVars, res, held, hist>>

\* getSalt: AsyncStorage.setItem resolves
SetItemResolves(p, rk) ==
    /\ pc[p] = "setItem"
    /\ saltStore' = loc[p].salt
    /\ loc' = DeriveKey(p, loc[p].salt, rk)
    /\ pc' = [pc EXCEPT ![p] = "setGenericPassword"]
    /\ UNCHANGED <<uiVars, appVars, aesPresent, keychain, dbVars, res, held, hist>>

\* Keychain.setGenericPassword resolves
SetGenericPasswordResolves(p) ==
    /\ pc[p] = "setGenericPassword"
    /\ keychain' = loc[p].key
    /\ pc' = [pc EXCEPT ![p] = "haveKey"]
    /\ UNCHANGED <<uiVars, appVars, aesPresent, saltStore, dbVars, res, held, hist, loc>>

\* getEncryptionKey has returned: the IV is drawn and the data encrypted
EncryptResolves(p, ivId) ==
    /\ pc[p] = "haveKey"
    /\ LET e == encrypt(CallerData, loc[p].key, aesPresent, ivId)
       IN loc' = [loc EXCEPT ![p].encrypted = e.encrypted, ![p].iv = e.iv]
    /\ pc' = [pc EXCEPT ![p] = "done"]
    /\ UNCHANGED <<uiVars, appVars, cryptoVars, dbVars, res, held, hist>>

InitKey ==
    /\ aesPresent \in BOOLEAN
    /\ keychain = NoKey
    /\ saltStore = NoSalt
    /\ now = 1
    /\ database = "null"
    /\ nextId = 1
    /\ rows = {}
    /\ tableExists = FALSE
    /\ view = NoView
    /\ notes = NoNotes
    /\ auth = NoAuth
    /\ app = NoApp
    /\ ui = NoUi
    /\ res = NoRes
    /\ held = NoHeld
    /\ hist = NoHist
    /\ pc = [p \in Callers |-> "start"]
    /\ loc = [p \in Callers |-> NoLoc]

NextKey ==
    \E p \in Callers :
        \/ StartEncrypt(p)
        \/ GetGenericPasswordResolves(p)
        \/ \E rs \in Salts, rk \in Rnds : GetItemResolves(p, rs, rk)
        \/ \E rk \in Rnds : SetItemResolves(p, rk)
        \/ SetGenericPasswordResolves(p)
        \/ \E ivId \in IvIds : EncryptResolves(p, ivId)

SpecKey == InitKey /\ [][NextKey]_vars

(* C4: one key per installation under overlapping calls.  Every call of    *)
(* encrypt() that has returned used the key that secure storage holds, so  *)
(* its ciphertext decrypts to its plaintext under the stored key.          *)
C4_OneKeyUnderOverlap ==
    \A p \in Callers :
        pc[p] = "done" =>
            /\ loc[p].key = keychain
            /\ decrypt(loc[p].encrypted, loc[p].iv, keychain, aesPresent)
                   = Ok(CallerData)

----------------------------------------------------------------------------
(* DatabaseService, each method run to completion (calls awaited one after *)
(* another).                                                               *)

NoNote == [id |-> 0, title |-> <<>>, content |-> <<>>, createdAt |-> 0,
           updatedAt |-> 0]

RowIds == {r.id : r \in rows}
RowOf(id) == CHOOSE r \in rows : r.id = id

\* a decryptNote that gives up on the content instead of throwing
decryptNotePartial(row, key, aes) ==
    LET title == decrypt(row.titleEncrypted, row.titleIv, key, aes)
        content == decrypt(row.contentEncrypted, row.contentIv, key, aes)
    IN IF title.ok
       THEN [ok |-> TRUE,
             note |-> [id |-> row.id, title |-> title.val,
                       content |-> IF content.ok THEN content.val ELSE <<>>,
                       createdAt |-> row.createdAt,
                       updatedAt |-> row.updatedAt]]
       ELSE [ok |-> FALSE, note |-> NoNote]

decryptNote(row, key, aes) ==
    LET title == decrypt(row.titleEncrypted, row.titleIv, key, aes)
        content == decrypt(row.contentEncrypted, row.contentIv, key, aes)
    IN IF title.ok /\ content.ok
       THEN [ok |-> TRUE,
             note |-> [id |-> row.id, title |-> title.val,
                       content |-> content.val, createdAt |-> row.createdAt,
                       updatedAt |-> row.updatedAt]]
       ELSE [ok |-> FALSE, note |-> NoNote]

\* the EncryptedNote saveNote builds from the two encrypt() results
EncryptedNote(note, e1, e2, timestamp) ==
    [titleEncrypted |-> e1.encrypted, titleIv |-> e1.iv,
     contentEncrypted |-> e2.encrypted, contentIv |-> e2.iv,
     createdAt |-> IF note.createdAt # 0 THEN note.createdAt ELSE timestamp,
     updatedAt |-> timestamp]

\* an update that adds the row when no row has the id (INSERT OR REPLACE)
UpdateRowOrInsert(table, id, enc) ==
    {r \in table : r.id # id}
        \cup {[id |-> id,
               titleEncrypted |-> enc.titleEncrypted,
               titleIv |-> enc.titleIv,
               contentEncrypted |-> enc.contentEncrypted,
               contentIv |-> enc.contentIv,
               createdAt |-> IF \E r \in table : r.id = id
                             THEN (CHOOSE r \in table : r.id = id).createdAt
                             ELSE enc.createdAt,
               updatedAt |-> enc.updatedAt]}

\* an update that writes the title and updatedAt and leaves the content
UpdateRowTitleOnly(table, id, enc) ==
    {IF r.id = id
     THEN [r EXCEPT !.titleEncrypted = enc.titleEncrypted,
                    !.titleIv = enc.titleIv,
                    !.updatedAt = enc.updatedAt]
     ELSE r : r \in table}

\* an update that writes the whole record, createdAt included
UpdateRowReplacing(table, id, enc) ==
    {IF r.id = id
     THEN [r EXCEPT !.titleEncrypted = enc.titleEncrypted,
                    !.titleIv = enc.titleIv,
                    !.contentEncrypted = enc.contentEncrypted,
                    !.contentIv = enc.contentIv,
                    !.createdAt = enc.createdAt,
                    !.updatedAt = enc.updatedAt]
     ELSE r : r \in table}

\* UPDATE notes SET titleEncrypted, titleIv, contentEncrypted, contentIv,
\* updatedAt WHERE id = ?
UpdateRow(table, id, enc) ==
    {IF r.id = id
     THEN [r EXCEPT !.titleEncrypted = enc.titleEncrypted,
                    !.titleIv = enc.titleIv,
                    !.contentEncrypted = enc.contentEncrypted,
                    !.contentIv = enc.contentIv,
                    !.updatedAt = enc.updatedAt]
     ELSE r : r \in table}

\* INSERT INTO notes (...) VALUES (?, ?, ?, ?, ?, ?)
InsertRow(table, id, enc) ==
    table \cup {[id |-> id,
                 titleEncrypted |-> enc.titleEncrypted, titleIv |-> enc.titleIv,
                 contentEncrypted |-> enc.contentEncrypted,
                 contentIv |-> enc.contentIv,
                 createdAt |-> enc.createdAt, updatedAt |-> enc.updatedAt]}

\* the same SELECT without its ORDER BY clause
OrderUnspecified(table) ==
    {s \in [1..Cardinality(table) -> table] :
        \A i, j \in 1..Cardinality(table) : i # j => s[i] # s[j]}

\* SELECT * FROM notes ORDER BY updatedAt DESC: rows of equal updatedAt come
\* in an order SQL leaves open
OrderByUpdatedAtDesc(table) ==
    {s \in [1..Cardinality(table) -> table] :
        /\ \A i, j \in 1..Cardinality(table) : i # j => s[i] # s[j]
        /\ \A i, j \in 1..Cardinality(table) :
              i < j => s[i].updatedAt >= s[j].updatedAt}

\* the loop of getAllNotes: rows that fail to decrypt are skipped
RECURSIVE DecryptAll(_, _, _)
DecryptAll(results, key, aes) ==
    IF results = <<>> THEN <<>>
    ELSE LET d == decryptNote(Head(results), key, aes)
         IN (IF d.ok THEN <<d.note>> ELSE <<>>)
            \o DecryptAll(Tail(results), key, aes)

NoBefore == [some |-> FALSE, createdAt |-> 0, updatedAt |-> 0]
NoStoreRes == [op |-> "none", ok |-> TRUE, id |-> 0, absent |-> FALSE,
               note |-> NoNote, list |-> <<>>, before |-> NoBefore,
               timestamp |-> 0]

NoPlain == [some |-> FALSE, title |-> <<>>, content |-> <<>>]
Plain(note) == [some |-> TRUE, title |-> note.title, content |-> note.content]
Ids == 1..MaxId

\* history: ins[id] the plaintext of an insert nothing has touched since,
\* plain[id] the plaintext last saved into the row, lastSaved the id of the
\* row written by the latest saveNote
NoStoreHist == [ins |-> [i \in Ids |-> NoPlain],
                plain |-> [i \in Ids |-> NoPlain],
                lastSaved |-> 0]

Tick ==
    /\ now < MaxTime
    /\ now' = now + 1
    /\ UNCHANGED <<uiVars, appVars, cryptoVars, database, nextId, rows, tableExists, res, held,
                   hist, procVars>>

\* if (!this.database) await this.init(): the connection is opened and
\* CREATE TABLE IF NOT EXISTS runs; on an open connection a statement on a
\* missing table fails
TableReady == database = "null" \/ tableExists

SaveNote(note, rk, rs, iv1, iv2) ==
    /\ note.id = 0 => nextId <= MaxId
    /\ LET timestamp == now
           g == getEncryptionKey(keychain, saltStore, aesPresent, rk, rs)
           e1 == encrypt(note.title, g.key, aesPresent, iv1)
           e2 == encrypt(note.content, g.key, aesPresent, iv2)
           enc == EncryptedNote(note, e1, e2, timestamp)
           id == IF note.id # 0 THEN note.id ELSE nextId
           old == IF note.id \in RowIds
                  THEN [some |-> TRUE, createdAt |-> RowOf(note.id).createdAt,
                        updatedAt |-> RowOf(note.id).updatedAt]
                  ELSE NoBefore
       IN /\ database' = "open"
          /\ keychain' = g.keychain
          /\ saltStore' = g.saltStore
          /\ tableExists' = TableReady
          /\ IF ~(e1.ok /\ e2.ok) \/ ~TableReady
             THEN /\ res' = [NoStoreRes EXCEPT !.op = "saveNote", !.ok = FALSE]
                  /\ UNCHANGED <<nextId, rows, hist>>
             ELSE /\ rows' = IF note.id # 0 THEN UpdateRow(rows, note.id, enc)
                                            ELSE InsertRow(rows, nextId, enc)
                  /\ nextId' = IF note.id # 0 THEN nextId ELSE nextId + 1
                  /\ res' = [NoStoreRes EXCEPT !.op = "saveNote", !.id = id,
                                               !.before = old,
                                               !.timestamp = timestamp]
                  /\ hist' = IF note.id # 0 /\ note.id \notin RowIds
                             THEN hist
                             ELSE [ins |-> [hist.ins EXCEPT ![id] =
                                       IF note.id = 0 THEN Plain(note)
                                                      ELSE NoPlain],
                                   plain |-> [hist.plain EXCEPT ![id] = Plain(note)],
                                   lastSaved |-> id]
    /\ UNCHANGED <<uiVars, appVars, aesPresent, now, held, procVars>>

\* a getNote that throws when no row matches
GetNoteOrThrow(id, rk, rs) ==
    /\ database' = "open"
    /\ tableExists' = TableReady
    /\ IF ~TableReady \/ id \notin RowIds
       THEN /\ res' = [NoStoreRes EXCEPT !.op = "getNote", !.id = id,
                                         !.ok = FALSE]
            /\ UNCHANGED <<keychain, saltStore>>
       ELSE LET g == getEncryptionKey(keychain, saltStore, aesPresent, rk, rs)
                d == decryptNote(RowOf(id), g.key, aesPresent)
            IN /\ keychain' = g.keychain
               /\ saltStore' = g.saltStore
               /\ res' = [NoStoreRes EXCEPT !.op = "getNote", !.id = id,
                                            !.ok = d.ok, !.note = d.note]
    /\ UNCHANGED <<uiVars, appVars, aesPresent, now, nextId, rows, held, hist, procVars>>

GetNote(id, rk, rs) ==
    /\ database' = "open"
    /\ tableExists' = TableReady
    /\ IF ~TableReady
       THEN /\ res' = [NoStoreRes EXCEPT !.op = "getNote", !.id = id,
                                         !.ok = FALSE]
            /\ UNCHANGED <<keychain, saltStore>>
       ELSE IF id \notin RowIds
       THEN /\ res' = [NoStoreRes EXCEPT !.op = "getNote", !.id = id,
                                         !.absent = TRUE]
            /\ UNCHANGED <<keychain, saltStore>>
       ELSE LET g == getEncryptionKey(keychain, saltStore, aesPresent, rk, rs)
                d == decryptNote(RowOf(id), g.key, aesPresent)
            IN /\ keychain' = g.keychain
               /\ saltStore' = g.saltStore
               /\ res' = [NoStoreRes EXCEPT !.op = "getNote", !.id = id,
                                            !.ok = d.ok, !.note = d.note]
    /\ UNCHANGED <<uiVars, appVars, aesPresent, now, nextId, rows, held, hist, procVars>>

GetAllNotes(rk, rs) ==
    /\ database' = "open"
    /\ tableExists' = TableReady
    /\ \E results \in OrderByUpdatedAtDesc(rows) :
          IF ~TableReady
          THEN /\ res' = [NoStoreRes EXCEPT !.op = "getAllNotes", !.ok = FALSE]
               /\ UNCHANGED <<keychain, saltStore>>
          ELSE IF results = <<>>
          THEN /\ res' = [NoStoreRes EXCEPT !.op = "getAllNotes"]
               /\ UNCHANGED <<keychain, saltStore>>
          ELSE LET g == getEncryptionKey(keychain, saltStore, aesPresent, rk, rs)
               IN /\ keychain' = g.keychain
                  /\ saltStore' = g.saltStore
                  /\ res' = [NoStoreRes EXCEPT
                                !.op = "getAllNotes",
                                !.list = DecryptAll(results, g.key, aesPresent)]
    /\ UNCHANGED <<uiVars, appVars, aesPresent, now, nextId, rows, held, hist, procVars>>

\* a deleteNote that throws when no row matches
DeleteNoteOrThrow(id) ==
    /\ database' = "open"
    /\ tableExists' = TableReady
    /\ rows' = {r \in rows : r.id # id}
    /\ res' = [NoStoreRes EXCEPT !.op = "deleteNote", !.id = id,
                                 !.ok = (TableReady /\ id \in RowIds)]
    /\ hist' = IF id \in Ids
               THEN [hist EXCEPT !.ins[id] = NoPlain, !.plain[id] = NoPlain]
               ELSE hist
    /\ UNCHANGED <<uiVars, appVars, cryptoVars, now, nextId, held, procVars>>

DeleteNote(id) ==
    /\ database' = "open"
    /\ tableExists' = TableReady
    /\ rows' = {r \in rows : r.id # id}
    /\ res' = [NoStoreRes EXCEPT !.op = "deleteNote", !.id = id,
                                 !.ok = TableReady]
    /\ hist' = IF id \in Ids
               THEN [hist EXCEPT !.ins[id] = NoPlain, !.plain[id] = NoPlain]
               ELSE hist
    /\ UNCHANGED <<uiVars, appVars, cryptoVars, now, nextId, held, procVars>>

\* a resetDatabase that does not create the table again
ResetDatabaseDropOnly ==
    /\ database' = "open"
    /\ rows' = {}
    /\ nextId' = 1
    /\ tableExists' = FALSE
    /\ resetEncryptionKey
    /\ res' = [NoStoreRes EXCEPT !.op = "resetDatabase"]
    /\ hist' = NoStoreHist
    /\ UNCHANGED <<uiVars, appVars, aesPresent, now, held, procVars>>

\* DROP TABLE IF EXISTS, resetEncryptionKey(), createTables(); DROP TABLE
\* also drops the table's AUTOINCREMENT counter
ResetDatabase ==
    /\ database' = "open"
    /\ rows' = {}
    /\ nextId' = 1
    /\ tableExists' = TRUE
    /\ resetEncryptionKey
    /\ res' = [NoStoreRes EXCEPT !.op = "resetDatabase"]
    /\ hist' = NoStoreHist
    /\ UNCHANGED <<uiVars, appVars, aesPresent, now, held, procVars>>

\* a close() of a store that keeps its table in memory only
CloseDiscarding ==
    /\ database = "open"
    /\ database' = "null"
    /\ rows' = {}
    /\ tableExists' = FALSE
    /\ res' = [NoStoreRes EXCEPT !.op = "close"]
    /\ UNCHANGED <<uiVars, appVars, cryptoVars, now, nextId, held, hist, procVars>>

Close ==
    /\ database = "open"
    /\ database' = "null"
    /\ res' = [NoStoreRes EXCEPT !.op = "close"]
    /\ UNCHANGED <<uiVars, appVars, cryptoVars, now, nextId, rows, tableExists, held, hist,
                   procVars>>

\* EncryptionService.resetEncryptionKey() called on its own
StoreResetEncryptionKey ==
    /\ resetEncryptionKey
    /\ res' = [NoStoreRes EXCEPT !.op = "resetEncryptionKey"]
    /\ hist' = [hist EXCEPT !.ins = [i \in Ids |-> NoPlain]]
    /\ UNCHANGED <<uiVars, appVars, aesPresent, dbVars, held, procVars>>

\* "#": not base64, not a ciphertext of the cipher
Junk == <<35>>

\* the stored title ciphertext of a row is damaged
CorruptTitle(id) ==
    /\ id \in RowIds
    /\ RowOf(id).titleEncrypted # Junk
    /\ rows' = {IF r.id = id THEN [r EXCEPT !.titleEncrypted = Junk] ELSE r :
                   r \in rows}
    /\ res' = [NoStoreRes EXCEPT !.op = "corrupt", !.id = id]
    /\ hist' = [hist EXCEPT !.ins[id] = NoPlain]
    /\ UNCHANGED <<uiVars, appVars, cryptoVars, now, database, nextId, tableExists, held,
                   procVars>>

\* the stored content IV of a row loses its last character
TruncateContentIv(id) ==
    /\ id \in RowIds
    /\ RowOf(id).contentIv.len = IV_SIZE * 2
    /\ rows' = {IF r.id = id
                THEN [r EXCEPT !.contentIv.len = (IV_SIZE * 2) - 1] ELSE r :
                   r \in rows}
    /\ res' = [NoStoreRes EXCEPT !.op = "corrupt", !.id = id]
    /\ hist' = [hist EXCEPT !.ins[id] = NoPlain]
    /\ UNCHANGED <<uiVars, appVars, cryptoVars, now, database, nextId, tableExists, held,
                   procVars>>

\* ("T", "C") and (euro sign, "")
NoteTexts == {[title |-> <<84>>, content |-> <<67>>],
              [title |-> <<8364>>, content |-> <<>>]}

\* the notes callers pass: { title, content } or { id, title, content }
NoteInputs ==
    {[id |-> i, title |-> t.title, content |-> t.content, createdAt |-> 0] :
        i \in 0..MaxId, t \in NoteTexts}

InitStore ==
    /\ aesPresent \in BOOLEAN
    /\ keychain = NoKey
    /\ saltStore = NoSalt
    /\ now = 1
    /\ database = "null"
    /\ nextId = 1
    /\ rows = {}
    /\ tableExists = FALSE
    /\ view = NoView
    /\ notes = NoNotes
    /\ auth = NoAuth
    /\ app = NoApp
    /\ ui = NoUi
    /\ res = NoStoreRes
    /\ held = NoHeld
    /\ hist = NoStoreHist
    /\ pc = <<>>
    /\ loc = <<>>

NextStore ==
    \/ \E note \in NoteInputs, rk \in KeyDraws, rs \in SaltDraws :
          SaveNote(note, rk, rs, 1, MaxIv)
    \/ \E id \in Ids, rk \in KeyDraws, rs \in SaltDraws : GetNote(id, rk, rs)
    \/ \E rk \in KeyDraws, rs \in SaltDraws : GetAllNotes(rk, rs)
    \/ \E id \in Ids : DeleteNote(id)
    \/ ResetDatabase
    \/ StoreResetEncryptionKey
    \/ \E id \in Ids : CorruptTitle(id)
    \/ \E id \in Ids : TruncateContentIv(id)

SpecStore == InitStore /\ [][NextStore]_vars

\* the store under a running clock; what the random draws of the cipher are
\* does not bear on timestamps and order, so they are held fixed
OrderInputs ==
    {[id |-> i, title |-> <<84>>, content |-> <<67>>, createdAt |-> 0] :
        i \in 0..MaxId}

NextOrder ==
    \/ Tick
    \/ \E note \in OrderInputs : SaveNote(note, 1, 1, 1, MaxIv)
    \/ GetAllNotes(1, 1)
    \/ \E id \in Ids : DeleteNote(id)

SpecOrder == InitStore /\ [][NextOrder]_vars

\* a table of one row, under every key and every title IV drawn
NextFetch ==
    \/ \E note \in NoteInputs, rk \in KeyDraws, rs \in SaltDraws, iv1 \in IvIds :
          /\ note.id = 0 => rows = {}
          /\ SaveNote(note, rk, rs, iv1, MaxIv)
    \/ \E id \in Ids, rk \in KeyDraws, rs \in SaltDraws : GetNote(id, rk, rs)
    \/ \E id \in Ids : DeleteNote(id)
    \/ StoreResetEncryptionKey
    \/ \E id \in Ids : CorruptTitle(id)
    \/ \E id \in Ids : TruncateContentIv(id)

SpecFetch == InitStore /\ [][NextFetch]_vars

\* the whole interface of the store, calls made one after the other, the
\* clock standing still and the IV draws held fixed
NextTable ==
    \/ \E note \in OrderInputs, rk \in KeyDraws, rs \in SaltDraws :
          SaveNote(note, rk, rs, 1, MaxIv)
    \/ \E id \in Ids, rk \in KeyDraws, rs \in SaltDraws : GetNote(id, rk, rs)
    \/ \E rk \in KeyDraws, rs \in SaltDraws : GetAllNotes(rk, rs)
    \/ \E id \in Ids : DeleteNote(id)
    \/ ResetDatabase
    \/ Close

SpecTable == InitStore /\ [][NextTable]_vars

----------------------------------------------------------------------------
(* Properties of the note store *)

ListIds(list) == {list[i].id : i \in 1..Len(list)}

Decryptable(row) == decryptNote(row, keychain, aesPresent).ok

NonIncreasing(list) ==
    \A i, j \in 1..Len(list) : i < j => list[i].updatedAt >= list[j].updatedAt

(* C1: save/get round-trip.  getNote(n) of a note inserted by               *)
(* saveNote({title, content}), with no update, delete, reset, key reset or *)
(* damage in between, resolves with that id, title and content and with    *)
(* createdAt equal to updatedAt.                                           *)
C1_SaveGetRoundTrip ==
    (res.op = "getNote" /\ hist.ins[res.id].some) =>
        /\ res.ok
        /\ ~res.absent
        /\ res.note.id = res.id
        /\ res.note.title = hist.ins[res.id].title
        /\ res.note.content = hist.ins[res.id].content
        /\ res.note.createdAt = res.note.updatedAt

(* C7 as stated: after saveNote({id: n, ...}) on an existing row, createdAt *)
(* is unchanged and updatedAt is strictly greater than before.             *)
C7_UpdatedAtStrictlyIncreases ==
    (res.op = "saveNote" /\ res.ok /\ res.before.some) =>
        /\ RowOf(res.id).createdAt = res.before.createdAt
        /\ RowOf(res.id).updatedAt > res.before.updatedAt

(* C7 as amended: after saveNote({id: n, ...}) on an existing row,          *)
(* createdAt is unchanged and updatedAt is the clock value the call read,  *)
(* which is not smaller than the value before; it is greater exactly when  *)
(* the clock has advanced since the row was last written.                  *)
C7_UpdateKeepsCreatedAt ==
    (res.op = "saveNote" /\ res.ok /\ res.before.some) =>
        /\ RowOf(res.id).createdAt = res.before.createdAt
        /\ RowOf(res.id).updatedAt = res.timestamp
        /\ RowOf(res.id).updatedAt >= res.before.updatedAt

C7_Witness ==
    /\ res.op = "saveNote"
    /\ res.ok
    /\ res.before.some
    /\ RowOf(res.id).updatedAt > res.before.updatedAt
    /\ RowOf(res.id).createdAt < RowOf(res.id).updatedAt

(* C8 as stated: getAllNotes() lists the note saved most recently first.   *)
C8_MostRecentlySavedFirst ==
    (res.op = "getAllNotes" /\ hist.lastSaved \in RowIds) =>
        /\ NonIncreasing(res.list)
        /\ res.list[1].id = hist.lastSaved

(* C8 as amended: getAllNotes() lists every note once, in non-increasing    *)
(* order of updatedAt; the note saved most recently comes first when its   *)
(* updatedAt is greater than that of every other note.                     *)
C8_ListingOrder ==
    res.op = "getAllNotes" =>
        /\ NonIncreasing(res.list)
        /\ ListIds(res.list) = RowIds
        /\ Len(res.list) = Cardinality(rows)
        /\ \A i \in 1..Len(res.list) :
              res.list[i].updatedAt = RowOf(res.list[i].id).updatedAt
        /\ (/\ hist.lastSaved \in RowIds
            /\ \A r \in rows : r.id # hist.lastSaved =>
                  r.updatedAt < RowOf(hist.lastSaved).updatedAt)
              => res.list[1].id = hist.lastSaved

\* insert A, insert B, update A: the listing is [A, B]
C8_Witness ==
    /\ res.op = "getAllNotes"
    /\ Len(res.list) = 2
    /\ res.list[1].id = 1
    /\ res.list[2].id = 2
    /\ res.list[1].updatedAt > res.list[2].updatedAt
    /\ res.list[1].createdAt < res.list[2].createdAt
    /\ hist.lastSaved = 1

(* C9: partial-corruption resilience.  getAllNotes() resolves and lists    *)
(* exactly the rows that decrypt, each once and with the plaintext that    *)
(* was saved into it, in listing order, and none of the rows that fail.    *)
C9_ListingSkipsOnlyFailures ==
    res.op = "getAllNotes" =>
        /\ res.ok
        /\ ListIds(res.list) = {r.id : r \in {x \in rows : Decryptable(x)}}
        /\ Len(res.list) = Cardinality(ListIds(res.list))
        /\ NonIncreasing(res.list)
        /\ \A i \in 1..Len(res.list) :
              /\ res.list[i].title = hist.plain[res.list[i].id].title
              /\ res.list[i].content = hist.plain[res.list[i].id].content

(* C10: single-record fetch propagates decode failure.  When row n exists  *)
(* and the decryption of its title or of its content fails, getNote(n)     *)
(* rejects: it resolves neither with absent nor with a note.               *)
C10_GetNotePropagatesFailure ==
    (res.op = "getNote" /\ res.id \in RowIds) =>
        LET row == RowOf(res.id)
            title == decrypt(row.titleEncrypted, row.titleIv, keychain, aesPresent)
            content == decrypt(row.contentEncrypted, row.contentIv, keychain,
                               aesPresent)
        IN (~title.ok \/ ~content.ok) =>
              (~res.ok /\ ~res.absent /\ res.note = NoNote)

\* the title decrypts, the content does not, and getNote rejects
C10_Witness ==
    /\ res.op = "getNote"
    /\ res.id \in RowIds
    /\ ~res.ok
    /\ decrypt(RowOf(res.id).titleEncrypted, RowOf(res.id).titleIv, keychain,
               aesPresent).ok

----------------------------------------------------------------------------
(* C5: field round-trip.  Whenever decrypt is applied to the output of     *)
(* encrypt(s) with its IV while the stored key is the key of the           *)
(* encryption, it resolves with exactly s; on both cipher paths.           *)
C5_FieldRoundTrip ==
    (res.op = "decrypt" /\ res.key = held.key)
        => (res.ok /\ res.val = held.data)

(* C2: key reset invalidates old data.  decrypt of a ciphertext made under *)
(* key A, with its original IV, after a reset and under a new key B, fails *)
(* with an error and never resolves with a string.                         *)
C2_ResetInvalidates ==
    (res.op = "decrypt" /\ res.key # held.key) => ~res.ok

(* C3: key persistence.  In calls made one after another with no reset in  *)
(* between, every call obtains the key the first call obtained, and a key  *)
(* is generated only when secure storage holds none.                       *)
C3_KeyPersistence ==
    res.op \in {"getEncryptionKey", "encrypt", "decrypt"}
        => /\ res.key = hist.firstKey
           /\ res.key = keychain
           /\ res.generated => res.before = NoKey
           /\ res.before # NoKey => res.key = res.before

C3_Witness ==
    /\ res.op = "getEncryptionKey"
    /\ ~res.generated
    /\ res.before # NoKey
    /\ res.key = hist.firstKey

----------------------------------------------------------------------------
(* Properties of the two branches of saveNote *)

\* a step in which a saveNote resolved
SaveNoteResolves == res'.op = "saveNote" /\ res'.ok /\ now' = now

(* C11: insert/update branch of save.  saveNote with an id adds no row,   *)
(* resolves with that id and changes nothing but the encrypted fields and *)
(* updatedAt of the row with that id; saveNote without an id adds exactly *)
(* one row, leaves every other row as it was and resolves with an id no   *)
(* row had.                                                               *)
C11_SaveBranches ==
    [][SaveNoteResolves =>
         IF nextId' = nextId
         THEN /\ {r.id : r \in rows'} = RowIds
              /\ Cardinality(rows') = Cardinality(rows)
              /\ \A r \in rows : r.id # res'.id => r \in rows'
              /\ \A r \in rows : r.id = res'.id =>
                    \E u \in rows' : /\ u.id = r.id
                                      /\ u.createdAt = r.createdAt
                                      /\ u.updatedAt = res'.timestamp
         ELSE /\ res'.id \notin RowIds
              /\ rows \subseteq rows'
              /\ Cardinality(rows') = Cardinality(rows) + 1
              /\ \E u \in rows' : u.id = res'.id /\ u \notin rows]_vars

\* saveNote({id: 2, ...}) resolved with 2 while only row 1 exists
C11_Witness ==
    /\ res.op = "saveNote"
    /\ res.ok
    /\ res.id = 2
    /\ RowIds = {1}
    /\ nextId = 2

(* C12: absent is a value, not an error.  getNote(id) for an id no row has *)
(* (never saved, or deleted) resolves with null and leaves the table as it *)
(* was.                                                                    *)
C12_AbsentIsAValue ==
    [][(res'.op = "getNote" /\ res'.id \notin RowIds) =>
          /\ res'.ok
          /\ res'.absent
          /\ res'.note = NoNote
          /\ rows' = rows
          /\ nextId' = nextId]_vars

\* row 1 was deleted, row 2 exists, and getNote(1) resolved with null
C12_Witness ==
    /\ res.op = "getNote"
    /\ res.id = 1
    /\ res.ok
    /\ res.absent
    /\ RowIds = {2}

(* C13: delete idempotence.  deleteNote(n) resolves, removes row n and no  *)
(* other row, and leaves the table as it was when no row has the id (a     *)
(* second delete, an id never assigned); getNote(n) after the delete       *)
(* resolves with absent.                                                   *)
C13_DeleteIdempotence ==
    [][/\ res'.op = "deleteNote" =>
            /\ res'.ok
            /\ rows' = {r \in rows : r.id # res'.id}
            /\ res'.id \notin RowIds => rows' = rows
            /\ nextId' = nextId
       /\ (res.op = "deleteNote" /\ res'.op = "getNote" /\ res'.id = res.id) =>
            (res'.ok /\ res'.absent)]_vars

\* deleteNote(1) resolved; row 1 is gone and row 2 is still there
C13_Witness ==
    /\ res.op = "deleteNote"
    /\ res.ok
    /\ res.id = 1
    /\ RowIds = {2}

(* C14: store reset.  After resetDatabase() resolves the notes table       *)
(* exists and is empty, so that getAllNotes() resolves with an empty list; *)
(* key and salt are gone from storage, and the next getEncryptionKey()     *)
(* generates a key and stores it.                                          *)
C14_StoreReset ==
    /\ [](res.op = "resetDatabase" /\ res.ok =>
            /\ tableExists
            /\ rows = {}
            /\ keychain = NoKey
            /\ saltStore = NoSalt
            /\ \A rk \in Rnds, rs \in Salts :
                  LET g == getEncryptionKey(keychain, saltStore, aesPresent, rk, rs)
                  IN g.generated /\ g.key # NoKey /\ g.keychain = g.key)
    /\ [][(res.op = "resetDatabase" /\ res.ok) =>
            /\ res'.op = "getAllNotes" => (res'.ok /\ res'.list = <<>>)
            /\ res'.op = "saveNote" => (res'.ok /\ keychain' # NoKey)]_vars

\* resetDatabase() resolved: the connection is open, the table is there and
\* empty, no key is stored
C14_Witness ==
    /\ res.op = "resetDatabase"
    /\ res.ok
    /\ database = "open"
    /\ tableExists
    /\ rows = {}
    /\ keychain = NoKey

----------------------------------------------------------------------------
(* Close and reopen *)

\* the store was closed and nothing has been called since
Closed == res.op = "close" /\ database = "null"

(* C15: close and transparent reopen.  After close() resolves the store    *)
(* holds no connection and the table is as it was; a saveNote, getNote,    *)
(* getAllNotes or deleteNote started afterwards opens the connection       *)
(* itself and resolves with what the rows saved before the close call for. *)
C15_CloseAndReopen ==
    /\ [](res.op = "close" => (res.ok /\ database = "null"))
    /\ [][res'.op = "close" =>
            /\ rows' = rows
            /\ nextId' = nextId
            /\ tableExists' = tableExists
            /\ keychain' = keychain
            /\ saltStore' = saltStore]_vars
    /\ [][Closed =>
            /\ database' = "open"
            /\ tableExists'
            /\ res'.ok
            /\ res'.op = "getNote" =>
                  /\ rows' = rows
                  /\ res'.absent = (res'.id \notin RowIds)
                  /\ res'.id \in RowIds =>
                        /\ res'.note.id = res'.id
                        /\ res'.note.title = hist.plain[res'.id].title
                        /\ res'.note.content = hist.plain[res'.id].content
                        /\ res'.note.createdAt = RowOf(res'.id).createdAt
                        /\ res'.note.updatedAt = RowOf(res'.id).updatedAt
            /\ res'.op = "getAllNotes" =>
                  /\ rows' = rows
                  /\ ListIds(res'.list) = RowIds
                  /\ Len(res'.list) = Cardinality(rows)
                  /\ NonIncreasing(res'.list)
            /\ res'.op = "deleteNote" => rows' = {r \in rows : r.id # res'.id}
            /\ res'.op = "saveNote" =>
                  /\ \A r \in rows : r.id # res'.id => r \in rows'
                  /\ nextId' = nextId => {r.id : r \in rows'} = RowIds
                  /\ nextId' # nextId => {r.id : r \in rows'} = RowIds \cup {nextId}
         ]_vars

\* close() resolved on a store that holds two notes
C15_Witness ==
    /\ Closed
    /\ RowIds = {1, 2}
    /\ tableExists

----------------------------------------------------------------------------
(* Overlapping saveNote calls for one id.  A call runs from one await to   *)
(* the next: init and Date.now(), encrypt(title), encrypt(content), the    *)
(* UPDATE statement.                                                       *)

RaceId == 1

\* what caller p saves: titles "A", "B", ..., contents "a", "b", ...
RaceNote(p) ==
    [id |-> RaceId, title |-> <<64 + p>>, content |-> <<96 + p>>, createdAt |-> 0]

NoEnc == [ok |-> FALSE, encrypted |-> <<>>, iv |-> NoIv]
NoSave == [timestamp |-> 0, titleResult |-> NoEnc, contentResult |-> NoEnc,
           writeNo |-> 0]

Idle == \A p \in Callers : pc[p] = "idle"

\* the row to update is put there by a saveNote nothing overlaps
InsertAlone ==
    /\ Idle
    /\ rows = {}
    /\ \E note \in OrderInputs, rk \in KeyDraws, rs \in SaltDraws :
          note.id = 0 /\ SaveNote(note, rk, rs, 1, MaxIv)

TickRace ==
    /\ now < MaxTime
    /\ now' = now + 1
    /\ UNCHANGED <<uiVars, appVars, cryptoVars, database, nextId, rows, tableExists, res, held,
                   hist, procVars>>

\* saveNote(RaceNote(p)) is called: init() if needed, timestamp = Date.now()
SaveStarts(p) ==
    /\ pc[p] = "idle"
    /\ database' = "open"
    /\ tableExists' = TableReady
    /\ pc' = [pc EXCEPT ![p] = "title"]
    /\ loc' = [loc EXCEPT ![p] = [NoSave EXCEPT !.timestamp = now]]
    /\ UNCHANGED <<uiVars, appVars, cryptoVars, now, nextId, rows, res, held, hist>>

\* await EncryptionService.encrypt(note.title) settles
TitleEncrypted(p, rk, rs, ivId) ==
    /\ pc[p] = "title"
    /\ LET g == getEncryptionKey(keychain, saltStore, aesPresent, rk, rs)
           e == encrypt(RaceNote(p).title, g.key, aesPresent, ivId)
       IN /\ keychain' = g.keychain
          /\ saltStore' = g.saltStore
          /\ pc' = [pc EXCEPT ![p] = IF e.ok THEN "content" ELSE "failed"]
          /\ loc' = [loc EXCEPT ![p].titleResult = e]
    /\ UNCHANGED <<uiVars, appVars, aesPresent, dbVars, res, held, hist>>

\* await EncryptionService.encrypt(note.content) settles
ContentEncrypted(p, rk, rs, ivId) ==
    /\ pc[p] = "content"
    /\ LET g == getEncryptionKey(keychain, saltStore, aesPresent, rk, rs)
           e == encrypt(RaceNote(p).content, g.key, aesPresent, ivId)
       IN /\ keychain' = g.keychain
          /\ saltStore' = g.saltStore
          /\ pc' = [pc EXCEPT ![p] = IF e.ok THEN "write" ELSE "failed"]
          /\ loc' = [loc EXCEPT ![p].contentResult = e]
    /\ UNCHANGED <<uiVars, appVars, aesPresent, dbVars, res, held, hist>>

\* await executeSql(updateQuery, ...) settles and saveNote returns note.id
UpdateExecuted(p) ==
    /\ pc[p] = "write"
    /\ IF tableExists
       THEN /\ rows' = UpdateRow(rows, RaceId,
                          EncryptedNote(RaceNote(p), loc[p].titleResult,
                                        loc[p].contentResult, loc[p].timestamp))
            /\ pc' = [pc EXCEPT ![p] = "done"]
            /\ loc' = [loc EXCEPT ![p].writeNo =
                          1 + Cardinality({q \in Callers : pc[q] = "done"})]
       ELSE /\ pc' = [pc EXCEPT ![p] = "failed"]
            /\ UNCHANGED <<rows, loc>>
    /\ UNCHANGED <<uiVars, appVars, cryptoVars, now, database, nextId, tableExists, res, held,
                   hist>>

InitRace ==
    /\ aesPresent \in BOOLEAN
    /\ keychain = NoKey
    /\ saltStore = NoSalt
    /\ now = 1
    /\ database = "null"
    /\ nextId = 1
    /\ rows = {}
    /\ tableExists = FALSE
    /\ view = NoView
    /\ notes = NoNotes
    /\ auth = NoAuth
    /\ app = NoApp
    /\ ui = NoUi
    /\ res = NoStoreRes
    /\ held = NoHeld
    /\ hist = NoStoreHist
    /\ pc = [p \in Callers |-> "idle"]
    /\ loc = [p \in Callers |-> NoSave]

NextRace ==
    \/ InsertAlone
    \/ TickRace
    \/ \E p \in Callers : SaveStarts(p)
    \/ \E p \in Callers, rk \in KeyDraws, rs \in SaltDraws :
          TitleEncrypted(p, rk, rs, 1)
    \/ \E p \in Callers, rk \in KeyDraws, rs \in SaltDraws :
          ContentEncrypted(p, rk, rs, MaxIv)
    \/ \E p \in Callers : UpdateExecuted(p)

SpecRace == InitRace /\ [][NextRace]_vars

\* the row holds exactly what caller p passed to its UPDATE
RowIsFrom(p) ==
    /\ RowOf(RaceId).titleEncrypted = loc[p].titleResult.encrypted
    /\ RowOf(RaceId).titleIv = loc[p].titleResult.iv
    /\ RowOf(RaceId).contentEncrypted = loc[p].contentResult.encrypted
    /\ RowOf(RaceId).contentIv = loc[p].contentResult.iv
    /\ RowOf(RaceId).updatedAt = loc[p].timestamp

LastWriter(p) ==
    /\ pc[p] = "done"
    /\ \A q \in Callers : pc[q] = "done" => loc[q].writeNo <= loc[p].writeNo

(* C16: last-writer-wins on racing saves.  When overlapping saveNote calls *)
(* for one id have all resolved, the row holds the title ciphertext, title *)
(* IV, content ciphertext, content IV and updatedAt of the call whose      *)
(* UPDATE ran last, never a mix of two calls.                              *)
C16_LastWriterWins ==
    (RaceId \in RowIds /\ (\A p \in Callers : pc[p] = "done" /\ loc[p].writeNo > 0)) =>
        \A p \in Callers : LastWriter(p) => RowIsFrom(p)

\* both calls resolved; the first to start wrote last, and the row is its
C16_Witness ==
    /\ RaceId \in RowIds
    /\ \A p \in Callers : pc[p] = "done"
    /\ loc[1].timestamp < loc[2].timestamp
    /\ LastWriter(1)
    /\ RowIsFrom(1)

----------------------------------------------------------------------------
(* The connection.  Callers of init() and of the operations that start     *)
(* with "if (!this.database) await this.init()" run from one await to the  *)
(* next.  hist.open: the callers whose SQLite.openDatabase() connection is *)
(* open; hist.owner: the caller whose connection this.database refers to   *)
(* (0 when it is null); hist.closing: the connection close() is closing.   *)

NoCaller == 0
NoConnHist == [open |-> {}, owner |-> NoCaller, closing |-> NoCaller]

\* App's effect calls DatabaseService.init(): openDatabase() is issued
InitStarts(p) ==
    /\ pc[p] = "idle"
    /\ pc' = [pc EXCEPT ![p] = "opening"]
    /\ UNCHANGED <<uiVars, appVars, cryptoVars, dbVars, res, held, hist, loc>>

\* an operation is called: init() only if this.database is null
OperationStarts(p) ==
    /\ pc[p] = "idle"
    /\ pc' = [pc EXCEPT ![p] = IF database = "null" THEN "opening" ELSE "done"]
    /\ UNCHANGED <<uiVars, appVars, cryptoVars, dbVars, res, held, hist, loc>>

\* this.database = await SQLite.openDatabase(...)
OpenDatabaseResolves(p) ==
    /\ pc[p] = "opening"
    /\ database' = "open"
    /\ hist' = [hist EXCEPT !.open = @ \cup {p}, !.owner = p]
    /\ pc' = [pc EXCEPT ![p] = "creating"]
    /\ UNCHANGED <<uiVars, appVars, cryptoVars, now, nextId, rows, tableExists, res, held, loc>>

\* await this.createTables(): throws when this.database is null by now
CreateTablesResolves(p) ==
    /\ pc[p] = "creating"
    /\ tableExists' = (tableExists \/ database = "open")
    /\ pc' = [pc EXCEPT ![p] = IF database = "open" THEN "done" ELSE "failed"]
    /\ UNCHANGED <<uiVars, appVars, cryptoVars, now, database, nextId, rows, res, held, hist, loc>>

\* the call settles and its caller may call again
CallSettles(p) ==
    /\ pc[p] \in {"done", "failed"}
    /\ pc' = [pc EXCEPT ![p] = "idle"]
    /\ UNCHANGED <<uiVars, appVars, cryptoVars, dbVars, res, held, hist, loc>>

\* close(): if (this.database) await this.database.close() is issued
CloseStarts ==
    /\ database = "open"
    /\ hist.closing = NoCaller
    /\ hist' = [hist EXCEPT !.closing = hist.owner]
    /\ UNCHANGED <<uiVars, appVars, cryptoVars, dbVars, res, held, procVars>>

\* the close settles: this.database = null
CloseResolves ==
    /\ hist.closing # NoCaller
    /\ database' = "null"
    /\ hist' = [open |-> hist.open \ {hist.closing}, owner |-> NoCaller,
                closing |-> NoCaller]
    /\ UNCHANGED <<uiVars, appVars, cryptoVars, now, nextId, rows, tableExists, res, held,
                   procVars>>

InitConn ==
    /\ aesPresent \in BOOLEAN
    /\ keychain = NoKey
    /\ saltStore = NoSalt
    /\ now = 1
    /\ database = "null"
    /\ nextId = 1
    /\ rows = {}
    /\ tableExists \in BOOLEAN
    /\ view = NoView
    /\ notes = NoNotes
    /\ auth = NoAuth
    /\ app = NoApp
    /\ ui = NoUi
    /\ res = NoStoreRes
    /\ held = NoHeld
    /\ hist = NoConnHist
    /\ pc = [p \in Callers |-> "idle"]
    /\ loc = [p \in Callers |-> NoSave]

NextConn ==
    \/ \E p \in Callers : InitStarts(p)
    \/ \E p \in Callers : OperationStarts(p)
    \/ \E p \in Callers : OpenDatabaseResolves(p)
    \/ \E p \in Callers : CreateTablesResolves(p)
    \/ \E p \in Callers : CallSettles(p)
    \/ CloseStarts
    \/ CloseResolves

SpecConn == InitConn /\ [][NextConn]_vars

(* C17: single shared connection.  At every moment at most one connection  *)
(* is open, and it is the one the store holds; no connection stays open    *)
(* that the store no longer refers to.                                     *)
C17_SingleConnection ==
    /\ Cardinality(hist.open) <= 1
    /\ hist.open \subseteq {hist.owner}

----------------------------------------------------------------------------
(* NotePresenter.  One call is in flight at a time: it is called, its      *)
(* store operations settle one after the other, and after the last await   *)
(* it reads this.view and notifies.  ui.pending is the call in flight      *)
(* (observer: this.view when it was called; steady: that observer has      *)
(* stayed registered), ui.last the call that settled last, ui.settledUnder *)
(* this.view when it settled and ui.notified the callbacks it delivered.   *)

Views == 1..NumViews
PresenterOps == {"loadNotes", "addNote", "updateNote", "deleteNote"}

setView(v) ==
    /\ view' = v
    /\ ui' = IF v # view THEN [ui EXCEPT !.pending.steady = FALSE] ELSE ui
    /\ UNCHANGED <<appVars, cryptoVars, dbVars, res, held, hist, procVars>>

removeView ==
    /\ view' = NoView
    /\ ui' = [ui EXCEPT !.pending.steady = FALSE]
    /\ UNCHANGED <<appVars, cryptoVars, dbVars, res, held, hist, procVars>>

\* loadNotes(), addNote(..), updateNote(id, ..) or deleteNote(id) is called
PresenterCalled(op, id) ==
    /\ ui.pending.op = "none"
    /\ ui' = [NoUi EXCEPT !.pending = [op |-> op, id |-> id, outcome |-> "none",
                                       observer |-> view,
                                       steady |-> (view # NoView)]]
    /\ res' = NoStoreRes
    /\ UNCHANGED <<view, appVars, cryptoVars, dbVars, held, hist, procVars>>

PresenterNote(id) == [id |-> id, title |-> <<84>>, content |-> <<67>>, createdAt |-> 0]

\* await DatabaseService.getAllNotes()
LoadNotesAwaits(rk, rs) ==
    /\ ui.pending.op = "loadNotes"
    /\ res.op = "none"
    /\ GetAllNotes(rk, rs)

\* await DatabaseService.saveNote({ title, content }) or ({ id, title, content })
SaveAwaited(rk, rs) ==
    /\ ui.pending.op \in {"addNote", "updateNote"}
    /\ res.op = "none"
    /\ SaveNote(PresenterNote(ui.pending.id), rk, rs, 1, MaxIv)

\* await DatabaseService.getNote(noteId)
GetAwaited(rk, rs) ==
    /\ ui.pending.op \in {"addNote", "updateNote"}
    /\ res.op = "saveNote"
    /\ res.ok
    /\ GetNote(res.id, rk, rs)

\* await DatabaseService.deleteNote(id)
DeleteAwaited ==
    /\ ui.pending.op = "deleteNote"
    /\ res.op = "none"
    /\ DeleteNote(ui.pending.id)

\* the store operations of the call in flight have all settled
StoreSettled ==
    \/ ui.pending.op = "loadNotes" /\ res.op = "getAllNotes"
    \/ ui.pending.op \in {"addNote", "updateNote"} /\ res.op = "saveNote" /\ ~res.ok
    \/ ui.pending.op \in {"addNote", "updateNote"} /\ res.op = "getNote"
    \/ ui.pending.op = "deleteNote" /\ res.op = "deleteNote"

Outcome == IF ~res.ok THEN "error" ELSE IF res.absent THEN "absent" ELSE "ok"

SuccessCallback(op) ==
    CASE op = "loadNotes" -> "onNotesLoaded"
      [] op = "addNote" -> "onNoteAdded"
      [] op = "updateNote" -> "onNoteUpdated"
      [] op = "deleteNote" -> "onNoteDeleted"

\* the callbacks the code after the last await makes on observer v
Delivered(op, outcome, v) ==
    IF v = NoView THEN {}
    ELSE IF outcome = "error" THEN {[to |-> v, callback |-> "onError"]}
    ELSE IF outcome = "absent" THEN {}
    ELSE {[to |-> v, callback |-> SuccessCallback(op)]}

\* a presenter that notifies the observer it had when it was called
PresenterSettlesForCaller ==
    /\ ui.pending.op # "none"
    /\ StoreSettled
    /\ ui' = [pending |-> NoCall,
              last |-> [ui.pending EXCEPT !.outcome = Outcome],
              settledUnder |-> view,
              notified |-> Delivered(ui.pending.op, Outcome, ui.pending.observer)]
    /\ UNCHANGED <<view, appVars, cryptoVars, dbVars, res, held, hist, procVars>>

\* if (this.view) this.view.onX(..), or handleError(error)
PresenterSettles ==
    /\ ui.pending.op # "none"
    /\ StoreSettled
    /\ ui' = [pending |-> NoCall,
              last |-> [ui.pending EXCEPT !.outcome = Outcome],
              settledUnder |-> view,
              notified |-> Delivered(ui.pending.op, Outcome, view)]
    /\ UNCHANGED <<view, appVars, cryptoVars, dbVars, res, held, hist, procVars>>

\* EncryptionService.resetEncryptionKey() by some other part of the app
\* while the call is in flight
KeyResetMeanwhile ==
    /\ ui.pending.op # "none"
    /\ resetEncryptionKey
    /\ UNCHANGED <<uiVars, appVars, aesPresent, dbVars, res, held, hist, procVars>>

NextPresenter ==
    \/ \E v \in Views : setView(v)
    \/ removeView
    \/ PresenterCalled("loadNotes", 0)
    \/ PresenterCalled("addNote", 0) /\ rows = {} /\ nextId <= MaxId
    \/ \E id \in Ids : PresenterCalled("updateNote", id)
    \/ \E id \in Ids : PresenterCalled("deleteNote", id)
    \/ \E rk \in KeyDraws, rs \in SaltDraws : LoadNotesAwaits(rk, rs)
    \/ \E rk \in KeyDraws, rs \in SaltDraws : SaveAwaited(rk, rs)
    \/ \E rk \in KeyDraws, rs \in SaltDraws : GetAwaited(rk, rs)
    \/ DeleteAwaited
    \/ PresenterSettles
    \/ KeyResetMeanwhile

SpecPresenter == InitStore /\ [][NextPresenter]_vars

(* C18: the presenter notifies on every outcome.  A call of loadNotes,     *)
(* addNote, updateNote or deleteNote that settles while one observer stays *)
(* registered delivers exactly one notification to it: the matching        *)
(* success callback when the store operations succeeded, onError when one  *)
(* failed.                                                                 *)
C18_NotifiesOnEveryOutcome ==
    (ui.last.op # "none" /\ ui.last.steady) =>
        ui.notified =
            {[to |-> ui.last.observer,
              callback |-> IF ui.last.outcome = "error" THEN "onError"
                           ELSE SuccessCallback(ui.last.op)]}

(* C19: single observer.  Whatever a settling call delivers goes to the    *)
(* observer registered at that moment, and to no one when none is; an      *)
(* observer that was replaced or removed gets no callback, also from calls *)
(* started while it was registered.                                        *)
C19_SingleObserver ==
    ui.last.op # "none" =>
        /\ Cardinality(ui.notified) <= 1
        /\ \A n \in ui.notified : n.to = ui.settledUnder /\ n.to # NoView
        /\ ui.settledUnder = NoView => ui.notified = {}

\* a call made under observer 1 settled after setView(2): observer 2 was
\* notified, observer 1 was not
C19_Witness ==
    /\ ui.last.op = "loadNotes"
    /\ ui.last.observer = 1
    /\ ~ui.last.steady
    /\ ui.settledUnder = 2
    /\ ui.notified = {[to |-> 2, callback |-> "onNotesLoaded"]}

----------------------------------------------------------------------------
(* C20: no silent downgrade.  When the native cipher is unavailable,       *)
(* encrypt() and decrypt() fail, and no caller holds a ciphertext made     *)
(* with the hard-coded key.                                                *)
C20_NoSilentDowngrade ==
    ~aesPresent =>
        /\ res.op \in {"encrypt", "decrypt"} => ~res.ok
        /\ held.some => held.encrypted # simpleFallbackEncrypt(held.data).val

----------------------------------------------------------------------------
(* decrypt() called with an IV of the caller's choosing *)

\* absent, one character short, 16 characters, right, one character long
IvLengths == {0, 16, (IV_SIZE * 2) - 1, IV_SIZE * 2, (IV_SIZE * 2) + 1}
IvInputs == {[id |-> held.iv.id, len |-> n] : n \in IvLengths}
NativeOutcomes == {"rejects", "resolves"}

\* EncryptionService.decrypt(held.encrypted, iv)
CallDecryptWithIv(iv, rk, rs) ==
    /\ held.some
    /\ LET g == getEncryptionKey(keychain, saltStore, aesPresent, rk, rs)
           d == decrypt(held.encrypted, iv, g.key, aesPresent)
       IN /\ keychain' = g.keychain
          /\ saltStore' = g.saltStore
          /\ res' = [NoRes EXCEPT !.op = "decryptWithIv", !.ok = d.ok,
                                  !.key = g.key, !.before = keychain,
                                  !.generated = g.generated, !.val = d.val,
                                  !.iv = iv]
          /\ hist' = [hist EXCEPT !.firstKey = FirstKey(g.key)]
    /\ UNCHANGED <<uiVars, appVars, aesPresent, held, dbVars, procVars>>

\* the same call on the EncryptionService without fallback cipher
CallDecryptVariantWithIv(iv, rk, rs, native) ==
    /\ held.some
    /\ LET g == getEncryptionKey(keychain, saltStore, aesPresent, rk, rs)
           d == decryptVariant(held.encrypted, iv, g.key, aesPresent, native)
       IN /\ keychain' = g.keychain
          /\ saltStore' = g.saltStore
          /\ res' = [NoRes EXCEPT !.op = "decryptVariantWithIv", !.ok = d.ok,
                                  !.key = g.key, !.before = keychain,
                                  !.generated = g.generated, !.val = d.val,
                                  !.iv = iv]
          /\ hist' = [hist EXCEPT !.firstKey = FirstKey(g.key)]
    /\ UNCHANGED <<uiVars, appVars, aesPresent, held, dbVars, procVars>>

NextIv ==
    \/ \E data \in CipherStrings, rk \in KeyDraws, rs \in SaltDraws, ivId \in IvIds :
          CallEncrypt(data, rk, rs, ivId)
    \/ \E iv \in IvInputs, rk \in KeyDraws, rs \in SaltDraws :
          CallDecryptWithIv(iv, rk, rs)
    \/ \E iv \in IvInputs, rk \in KeyDraws, rs \in SaltDraws,
          native \in NativeOutcomes :
             CallDecryptVariantWithIv(iv, rk, rs, native)

SpecIv == InitCipher /\ [][NextIv]_vars

(* C21: IV validation.  decrypt(ciphertext, iv) with an absent IV or an IV *)
(* that is not 32 characters long rejects and never resolves with a        *)
(* string.                                                                 *)
C21_IvValidation ==
    (res.op \in {"decryptWithIv", "decryptVariantWithIv"}
        /\ res.iv.len # IV_SIZE * 2) => (~res.ok /\ res.val = <<>>)

\* the part of C21 that is about the EncryptionService with fallback cipher
C21_IvValidationCurrent ==
    (res.op = "decryptWithIv" /\ res.iv.len # IV_SIZE * 2) =>
        (~res.ok /\ res.val = <<>>)

----------------------------------------------------------------------------
(* AuthService.  The enabled flag lives in AsyncStorage under              *)
(* BIOMETRIC_AUTH_KEY (auth.flag); the biometric credential is the generic *)
(* password of the default keychain service (auth.entry), since no         *)
(* `service` option is passed: a different entry from the one              *)
(* EncryptionService stores under KEYCHAIN_SERVICE (keychain).             *)
(* AsyncStorage is reliable, as in the rest of the model; the keychain may *)
(* reject a call, and the user may cancel the biometric prompt.            *)

Biometry == {"available", "unavailable"}
KeychainOutcomes == {"resolves", "rejects"}
PromptOutcomes == {"passes", "cancelled"}

\* what a call leaves in the two stores, and the value it returns
AuthEffect(a, kc, ret) == [auth |-> a, keychain |-> kc, ret |-> ret]

isBiometricAvailable(biometry) == biometry = "available"

isBiometricAuthEnabled(a) == a.flag

\* the flag is written before the keychain entry is stored
enableBiometricAuth(a, kc, biometry, native) ==
    IF ~isBiometricAvailable(biometry) THEN AuthEffect(a, kc, FALSE)
    ELSE LET flagged == [a EXCEPT !.flag = TRUE]
         IN IF native = "rejects" THEN AuthEffect(flagged, kc, FALSE)
            ELSE AuthEffect([flagged EXCEPT !.entry = TRUE], kc, TRUE)

\* getGenericPassword resolves false when the default service has no entry
\* and rejects when the prompt is cancelled
authenticateWithBiometrics(a, prompt) ==
    IF ~isBiometricAuthEnabled(a) THEN TRUE
    ELSE IF ~a.entry THEN FALSE
    ELSE prompt = "passes"

\* a resetGenericPassword that clears every service of the keychain
disableBiometricAuthEveryService(a, kc, native) ==
    LET unflagged == [a EXCEPT !.flag = FALSE]
    IN IF native = "rejects" THEN AuthEffect(unflagged, kc, FALSE)
       ELSE AuthEffect([unflagged EXCEPT !.entry = FALSE], NoKey, TRUE)

disableBiometricAuth(a, kc, native) ==
    LET unflagged == [a EXCEPT !.flag = FALSE]
    IN IF native = "rejects" THEN AuthEffect(unflagged, kc, FALSE)
       ELSE AuthEffect([unflagged EXCEPT !.entry = FALSE], kc, TRUE)

setupBiometricAuthentication(a, kc, biometry, native) ==
    IF ~isBiometricAvailable(biometry) THEN AuthEffect(a, kc, FALSE)
    ELSE IF isBiometricAuthEnabled(a) THEN AuthEffect(a, kc, TRUE)
    ELSE enableBiometricAuth(a, kc, biometry, native)

AuthOps == {"enableBiometricAuth", "disableBiometricAuth",
            "setupBiometricAuthentication", "authenticateWithBiometrics"}

\* a call of AuthService settles: res.ret is the value it returned
AuthSettles(op, e) ==
    /\ auth' = e.auth
    /\ keychain' = e.keychain
    /\ res' = [op |-> op, ok |-> TRUE, ret |-> e.ret]
    /\ UNCHANGED <<uiVars, notes, app, aesPresent, saltStore, dbVars, held,
                   hist, procVars>>

CallEnableBiometricAuth(biometry, native) ==
    AuthSettles("enableBiometricAuth",
                enableBiometricAuth(auth, keychain, biometry, native))

CallDisableBiometricAuth(native) ==
    AuthSettles("disableBiometricAuth",
                disableBiometricAuth(auth, keychain, native))

CallSetupBiometricAuthentication(biometry, native) ==
    AuthSettles("setupBiometricAuthentication",
                setupBiometricAuthentication(auth, keychain, biometry, native))

CallAuthenticateWithBiometrics(prompt) ==
    AuthSettles("authenticateWithBiometrics",
                AuthEffect(auth, keychain,
                           authenticateWithBiometrics(auth, prompt)))

\* the biometric calls interleaved with saves and listings of the store
NextAuth ==
    \/ \E note \in OrderInputs : SaveNote(note, 1, 1, 1, MaxIv)
    \/ GetAllNotes(1, 1)
    \/ \E b \in Biometry, n \in KeychainOutcomes : CallEnableBiometricAuth(b, n)
    \/ \E n \in KeychainOutcomes : CallDisableBiometricAuth(n)
    \/ \E b \in Biometry, n \in KeychainOutcomes :
          CallSetupBiometricAuthentication(b, n)
    \/ \E pr \in PromptOutcomes : CallAuthenticateWithBiometrics(pr)

SpecAuth == InitStore /\ [][NextAuth]_vars

\* every stored row comes back from a listing with the text last saved
ListsWhatWasSaved ==
    (res.op = "getAllNotes" /\ res.ok) =>
        /\ ListIds(res.list) = RowIds
        /\ \A i \in 1..Len(res.list) :
              /\ res.list[i].title = hist.plain[res.list[i].id].title
              /\ res.list[i].content = hist.plain[res.list[i].id].content

(* C22: the biometric layer is separate from the crypto core.  No call of  *)
(* enableBiometricAuth, disableBiometricAuth, setupBiometricAuthentication *)
(* or authenticateWithBiometrics, whatever it returns, changes or removes  *)
(* the key stored under the encryption service identifier (or its salt, or *)
(* a row), and notes saved before such calls are listed with the same      *)
(* plaintext after them.                                                   *)
C22_BiometricsLeaveKeyAlone ==
    /\ []ListsWhatWasSaved
    /\ [][res'.op \in AuthOps =>
             /\ keychain' = keychain
             /\ saltStore' = saltStore
             /\ rows' = rows]_vars

\* a note was saved, biometrics were then disabled with the default
\* service's entry removed, and the key of the note is still stored
C22_Witness ==
    /\ res.op = "disableBiometricAuth"
    /\ res.ret
    /\ ~auth.entry
    /\ rows # {}
    /\ keychain # NoKey

(* C28: a failed enable leaves biometrics disabled.  Whenever              *)
(* enableBiometricAuth() returned false, isBiometricAuthEnabled() returns  *)
(* false; biometrics are never recorded as enabled while the keychain      *)
(* entry authenticateWithBiometrics() reads was never stored.              *)
C28_FailedEnableLeavesDisabled ==
    /\ (res.op = "enableBiometricAuth" /\ ~res.ret) =>
           ~isBiometricAuthEnabled(auth)
    /\ isBiometricAuthEnabled(auth) => auth.entry

----------------------------------------------------------------------------
(* App.  `app` holds the React state of the component (loading,            *)
(* authenticated, biometricAvailable, biometricEnabled), the alert whose   *)
(* buttons are waiting ("offer": Not Now / Enable, "retry": Try Again) and *)
(* a history: enabledAtStart is what initApp read from                     *)
(* isBiometricAuthEnabled(), passed whether a call of                      *)
(* authenticateWithBiometrics has returned true since the component was    *)
(* mounted, lastAuth how the latest such call ended.  The loading screen   *)
(* is rendered while loading, the authentication screen while not          *)
(* authenticated, the note list and its settings otherwise.                *)

OpenOutcomes == {"opens", "rejects"}

\* authenticate() that shows the notes whatever the service answered
authenticateOptimistic(ap, a, prompt) ==
    LET success == authenticateWithBiometrics(a, prompt)
    IN [ap EXCEPT !.authenticated = TRUE,
                  !.passed = ap.passed \/ success,
                  !.lastAuth = IF success THEN "passed" ELSE "failed"]

authenticate(ap, a, prompt) ==
    LET success == authenticateWithBiometrics(a, prompt)
    IN [ap EXCEPT !.authenticated = success,
                  !.passed = ap.passed \/ success,
                  !.lastAuth = IF success THEN "passed" ELSE "failed"]

\* the component is mounted: useState initial values
AppMounts ==
    /\ ~app.mounted
    /\ app' = [NoApp EXCEPT !.mounted = TRUE]
    /\ UNCHANGED <<uiVars, notes, auth, cryptoVars, dbVars, res, held, hist,
                   procVars>>

\* initApp(), from the effect or from the Try Again button
initApp(biometry, opening, prompt) ==
    /\ app.mounted
    /\ app.loading \/ app.alert = "retry"
    /\ LET available == isBiometricAvailable(biometry)
           enabled == isBiometricAuthEnabled(auth)
           read == [app EXCEPT !.biometricAvailable = available,
                               !.biometricEnabled = enabled,
                               !.enabledAtStart = enabled,
                               !.alert = "none",
                               !.loading = FALSE]
       IN IF opening = "rejects"
          THEN /\ app' = [read EXCEPT !.alert = "retry"]
               /\ UNCHANGED <<database, tableExists>>
          ELSE /\ database' = "open"
               /\ tableExists' = TRUE
               /\ app' = IF available /\ ~enabled
                         THEN [read EXCEPT !.alert = "offer"]
                         ELSE IF enabled THEN authenticate(read, auth, prompt)
                         ELSE [read EXCEPT !.authenticated = TRUE]
    /\ UNCHANGED <<uiVars, notes, auth, cryptoVars, now, nextId, rows, res,
                   held, hist, procVars>>

\* the Not Now button of the offer
PressNotNow ==
    /\ app.alert = "offer"
    /\ app' = [app EXCEPT !.alert = "none", !.authenticated = TRUE]
    /\ UNCHANGED <<uiVars, notes, auth, cryptoVars, dbVars, res, held, hist,
                   procVars>>

\* the Enable button of the offer
PressEnable(biometry, native, prompt) ==
    /\ app.alert = "offer"
    /\ LET e == setupBiometricAuthentication(auth, keychain, biometry, native)
           set == [app EXCEPT !.alert = "none", !.biometricEnabled = e.ret]
       IN /\ auth' = e.auth
          /\ keychain' = e.keychain
          /\ app' = IF e.ret THEN authenticate(set, e.auth, prompt)
                    ELSE [set EXCEPT !.authenticated = TRUE]
    /\ UNCHANGED <<uiVars, notes, aesPresent, saltStore, dbVars, res, held,
                   hist, procVars>>

\* the Authenticate button of the authentication screen
PressAuthenticate(prompt) ==
    /\ app.mounted
    /\ ~app.loading
    /\ ~app.authenticated
    /\ app.alert = "none"
    /\ app' = authenticate(app, auth, prompt)
    /\ UNCHANGED <<uiVars, notes, auth, cryptoVars, dbVars, res, held, hist,
                   procVars>>

\* the settings button of the note list's header, and the modal's Close
showSettings ==
    /\ app.mounted
    /\ ~app.loading
    /\ app.authenticated
    /\ ~app.settingsVisible
    /\ app' = [app EXCEPT !.settingsVisible = TRUE]
    /\ UNCHANGED <<uiVars, notes, auth, cryptoVars, dbVars, res, held, hist,
                   procVars>>

hideSettings ==
    /\ app.settingsVisible
    /\ app' = [app EXCEPT !.settingsVisible = FALSE]
    /\ UNCHANGED <<uiVars, notes, auth, cryptoVars, dbVars, res, held, hist,
                   procVars>>

\* the switch of the settings modal
toggleBiometricAuth(value, biometry, native) ==
    /\ app.settingsVisible
    /\ app.biometricAvailable
    /\ LET e == IF value
                THEN enableBiometricAuth(auth, keychain, biometry, native)
                ELSE disableBiometricAuth(auth, keychain, native)
       IN /\ auth' = e.auth
          /\ keychain' = e.keychain
          /\ app' = IF e.ret THEN [app EXCEPT !.biometricEnabled = value]
                    ELSE app
    /\ UNCHANGED <<uiVars, notes, aesPresent, saltStore, dbVars, res, held,
                   hist, procVars>>

\* the component is unmounted (the effect's cleanup closes the store) and
\* the application is gone until it is opened again
AppUnmounts ==
    /\ app.mounted
    /\ app' = NoApp
    /\ database' = "null"
    /\ UNCHANGED <<uiVars, notes, auth, cryptoVars, now, nextId, rows,
                   tableExists, res, held, hist, procVars>>

NextApp ==
    \/ AppMounts
    \/ \E b \in Biometry, o \in OpenOutcomes, pr \in PromptOutcomes :
          initApp(b, o, pr)
    \/ PressNotNow
    \/ \E b \in Biometry, n \in KeychainOutcomes, pr \in PromptOutcomes :
          PressEnable(b, n, pr)
    \/ \E pr \in PromptOutcomes : PressAuthenticate(pr)
    \/ showSettings
    \/ hideSettings
    \/ \E v \in BOOLEAN, b \in Biometry, n \in KeychainOutcomes :
          toggleBiometricAuth(v, b, n)
    \/ AppUnmounts

SpecApp == InitStore /\ [][NextApp]_vars

(* C23: authentication gates the notes.  When biometric authentication is  *)
(* enabled at application start, the authenticated state stays false (the  *)
(* note list is not shown) until a call of authenticateWithBiometrics has  *)
(* returned true, and a failed or cancelled authentication leaves the      *)
(* application on the authentication screen.                               *)
C23_AuthenticationGatesNotes ==
    /\ (app.enabledAtStart /\ app.authenticated) => app.passed
    /\ app.lastAuth = "failed" => (~app.authenticated /\ ~app.loading)

\* biometrics were enabled when the application started, the first
\* authentication was cancelled, and the notes are still not shown
C23_Witness ==
    /\ app.enabledAtStart
    /\ auth.flag /\ auth.entry
    /\ app.lastAuth = "failed"
    /\ ~app.authenticated

----------------------------------------------------------------------------
(* The life of the connection: init(), an operation (saveNote) and close() *)
(* overlapping, each running from one await to the next, with              *)
(* SQLite.openDatabase() and the CREATE TABLE statement resolving or       *)
(* rejecting.  hist.open: the callers whose connection is open;            *)
(* hist.owner: the caller whose connection this.database refers to.        *)
(* loc[p].call: what p called; loc[p].conn: the connection its close() is  *)
(* closing; loc[p].sql: what this.database was when p issued its           *)
(* statement; loc[p].during: the callers that were opening a connection    *)
(* when p called close(), emptied as soon as any call starts after it.     *)

SqlOutcomes == {"resolves", "rejects"}
NoLife == [call |-> "none", conn |-> NoCaller, sql |-> "none", during |-> {}]
NoLifeHist == [open |-> {}, owner |-> NoCaller]

\* p starts a call; the calls that were waiting see a call start after them
Started(p, call, during) ==
    [q \in Callers |->
        IF q = p THEN [NoLife EXCEPT !.call = call, !.during = during]
        ELSE [loc[q] EXCEPT !.during = {}]]

\* the state of the connection this.database refers to
Connection ==
    IF database = "null" THEN "null"
    ELSE IF hist.owner \in hist.open THEN "open"
    ELSE "closed"

\* init() is called: SQLite.openDatabase() is issued
initCalled(p) ==
    /\ pc[p] = "idle"
    /\ pc' = [pc EXCEPT ![p] = "opening"]
    /\ loc' = Started(p, "init", {})
    /\ UNCHANGED <<uiVars, appVars, cryptoVars, dbVars, res, held, hist>>

\* saveNote() is called: init() if this.database is null, else encrypt()
saveNoteCalled(p) ==
    /\ pc[p] = "idle"
    /\ pc' = [pc EXCEPT ![p] = IF database = "null" THEN "opening"
                               ELSE "encrypting"]
    /\ loc' = Started(p, "saveNote", {})
    /\ UNCHANGED <<uiVars, appVars, cryptoVars, dbVars, res, held, hist>>

\* this.database = await SQLite.openDatabase(...), or init() rejects
openDatabaseSettles(p, outcome) ==
    /\ pc[p] = "opening"
    /\ IF outcome = "opens"
       THEN /\ database' = "open"
            /\ hist' = [hist EXCEPT !.open = @ \cup {p}, !.owner = p]
            /\ pc' = [pc EXCEPT ![p] = "creating"]
       ELSE /\ pc' = [pc EXCEPT ![p] = "failed"]
            /\ UNCHANGED <<database, hist>>
    /\ UNCHANGED <<uiVars, appVars, cryptoVars, now, nextId, rows,
                   tableExists, res, held, loc>>

\* await this.createTables(): throws when this.database is null by now,
\* else issues CREATE TABLE IF NOT EXISTS; init() rethrows what it throws
createTablesSettles(p, outcome) ==
    /\ pc[p] = "creating"
    /\ LET created == Connection = "open" /\ outcome = "resolves"
       IN /\ tableExists' = (tableExists \/ created)
          /\ loc' = [loc EXCEPT ![p].sql = IF Connection = "null" THEN @
                                           ELSE Connection]
          /\ pc' = [pc EXCEPT ![p] =
                       IF ~created THEN "failed"
                       ELSE IF loc[p].call = "init" THEN "done"
                       ELSE "encrypting"]
    /\ UNCHANGED <<uiVars, appVars, cryptoVars, now, database, nextId, rows,
                   res, held, hist>>

\* both fields are encrypted: this.database!.executeSql(...) is issued
encryptSettles(p) ==
    /\ pc[p] = "encrypting"
    /\ loc' = [loc EXCEPT ![p].sql = Connection]
    /\ pc' = [pc EXCEPT ![p] = IF Connection = "open" THEN "done"
                               ELSE "failed"]
    /\ UNCHANGED <<uiVars, appVars, cryptoVars, dbVars, res, held, hist>>

\* close() is called: nothing to do when this.database is null, else
\* this.database.close() is issued
closeCalled(p) ==
    /\ pc[p] = "idle"
    /\ pc' = [pc EXCEPT ![p] = IF database = "null" THEN "done"
                               ELSE "closing"]
    /\ loc' = [Started(p, "close", {q \in Callers : pc[q] = "opening"})
                  EXCEPT ![p].conn = IF database = "null" THEN NoCaller
                                     ELSE hist.owner]
    /\ UNCHANGED <<uiVars, appVars, cryptoVars, dbVars, res, held, hist>>

\* the connection is closed: this.database = null
closeSettles(p) ==
    /\ pc[p] = "closing"
    /\ database' = "null"
    /\ hist' = [open |-> hist.open \ {loc[p].conn}, owner |-> NoCaller]
    /\ pc' = [pc EXCEPT ![p] = "done"]
    /\ UNCHANGED <<uiVars, appVars, cryptoVars, now, nextId, rows,
                   tableExists, res, held, loc>>

\* the caller has its answer and may call again
CallerReturns(p) ==
    /\ pc[p] \in {"done", "failed"}
    /\ pc' = [pc EXCEPT ![p] = "idle"]
    /\ loc' = [loc EXCEPT ![p] = NoLife]
    /\ UNCHANGED <<uiVars, appVars, cryptoVars, dbVars, res, held, hist>>

InitLife ==
    /\ aesPresent \in BOOLEAN
    /\ keychain = NoKey
    /\ saltStore = NoSalt
    /\ now = 1
    /\ database = "null"
    /\ nextId = 1
    /\ rows = {}
    /\ tableExists = FALSE
    /\ view = NoView
    /\ notes = NoNotes
    /\ auth = NoAuth
    /\ app = NoApp
    /\ ui = NoUi
    /\ res = NoStoreRes
    /\ held = NoHeld
    /\ hist = NoLifeHist
    /\ pc = [p \in Callers |-> "idle"]
    /\ loc = [p \in Callers |-> NoLife]

NextLife ==
    \/ \E p \in Callers : initCalled(p)
    \/ \E p \in Callers : saveNoteCalled(p)
    \/ \E p \in Callers, o \in OpenOutcomes : openDatabaseSettles(p, o)
    \/ \E p \in Callers, o \in SqlOutcomes : createTablesSettles(p, o)
    \/ \E p \in Callers : encryptSettles(p)
    \/ \E p \in Callers : closeCalled(p)
    \/ \E p \in Callers : closeSettles(p)
    \/ \E p \in Callers : CallerReturns(p)

SpecLife == InitLife /\ [][NextLife]_vars

(* C24: every SQL statement a store operation issues is issued on an open  *)
(* connection; an operation that has passed its lazy-initialisation check  *)
(* never uses a connection that an overlapping close() has closed or set   *)
(* to null.                                                                *)
C24_SqlOnOpenConnection ==
    \A p \in Callers : loc[p].sql \in {"none", "open"}

(* C25: a failed init() leaves the store uninitialised.  Whenever init()   *)
(* rejected, at the opening of the connection or at the creation of the    *)
(* table, the store does not hold the connection that call opened.         *)
C25_FailedInitHoldsNothing ==
    \A p \in Callers :
        (pc[p] = "failed" /\ loc[p].call = "init") => hist.owner # p

(* C27: close() wins over a pending open.  If close() was called while     *)
(* init() was opening the connection and no call was started afterwards,   *)
(* then once both have settled (init() resolved, close() resolved) no      *)
(* connection is left open.                                                *)
C27_CloseWinsOverPendingOpen ==
    \A p, q \in Callers :
        ( /\ loc[p].call = "init" /\ pc[p] = "done"
          /\ loc[q].call = "close" /\ pc[q] = "done"
          /\ p \in loc[q].during )
        => hist.open = {}

----------------------------------------------------------------------------
(* resetDatabase() that rejects *)

\* DROP TABLE IF EXISTS succeeds, then Keychain.resetGenericPassword
\* rejects: resetEncryptionKey() throws, and the catch block of
\* resetDatabase() rethrows before createTables() is reached
ResetDatabaseRejects ==
    /\ database' = "open"
    /\ rows' = {}
    /\ nextId' = 1
    /\ tableExists' = FALSE
    /\ res' = [NoStoreRes EXCEPT !.op = "resetDatabase", !.ok = FALSE]
    /\ hist' = NoStoreHist
    /\ UNCHANGED <<uiVars, appVars, cryptoVars, now, held, procVars>>

NextReset ==
    \/ \E note \in OrderInputs, rk \in KeyDraws, rs \in SaltDraws :
          SaveNote(note, rk, rs, 1, MaxIv)
    \/ \E id \in Ids, rk \in KeyDraws, rs \in SaltDraws : GetNote(id, rk, rs)
    \/ \E rk \in KeyDraws, rs \in SaltDraws : GetAllNotes(rk, rs)
    \/ \E id \in Ids : DeleteNote(id)
    \/ ResetDatabase
    \/ ResetDatabaseRejects

SpecReset == InitStore /\ [][NextReset]_vars

(* C26: resetDatabase() never leaves the store without its table.  After   *)
(* resetDatabase() has settled, resolved or rejected, the notes table      *)
(* exists, and a saveNote, getNote, getAllNotes or deleteNote that follows *)
(* on the still-open connection does not fail.                             *)
C26_ResetKeepsTable ==
    /\ [](res.op = "resetDatabase" => tableExists)
    /\ [][(res.op = "resetDatabase" /\ res'.op \in {"saveNote", "getAllNotes",
                                                   "deleteNote"})
             => res'.ok]_vars

----------------------------------------------------------------------------
(* NoteList.  The component registers itself with its presenter and calls  *)
(* loadNotes() when it is mounted; its noteView callbacks update the       *)
(* `notes` state (notes.list).  One presenter call is made at a time, and  *)
(* React applies the state update of a callback before the next call is    *)
(* made.  Rows may be in the table from an earlier session, and the clock  *)
(* runs.                                                                   *)

onNotesLoaded(prevNotes, loadedNotes) == loadedNotes

onNoteAdded(prevNotes, note) == <<note>> \o prevNotes

onNoteUpdated(prevNotes, note) ==
    [i \in 1..Len(prevNotes) |->
        IF prevNotes[i].id = note.id THEN note ELSE prevNotes[i]]

onNoteDeleted(prevNotes, id) == SelectSeq(prevNotes, LAMBDA n : n.id # id)

\* useEffect: presenter.setView(noteView)
NoteListMounts ==
    /\ view = NoView
    /\ ui.pending.op = "none"
    /\ setView(1)

\* a row saved before the component was mounted
SavedEarlier ==
    /\ view = NoView
    /\ nextId <= MaxId
    /\ SaveNote(PresenterNote(0), 1, 1, 1, MaxIv)

\* presenter.loadNotes() of the effect, then the calls of the handlers
NoteListCalls(op, id) ==
    /\ view # NoView
    /\ ui.notified = {}
    /\ (op = "loadNotes") = ~notes.loaded
    /\ op = "addNote" => nextId <= MaxId
    /\ PresenterCalled(op, id)

\* the state update of the callback the presenter made is applied
NoteListRenders ==
    /\ ui.pending.op = "none"
    /\ ui.notified # {}
    /\ LET callback == (CHOOSE d \in ui.notified : TRUE).callback
       IN notes' =
            CASE callback = "onNotesLoaded" ->
                    [list |-> onNotesLoaded(notes.list, res.list),
                     loaded |-> TRUE]
              [] callback = "onNoteAdded" ->
                    [notes EXCEPT !.list = onNoteAdded(@, res.note)]
              [] callback = "onNoteUpdated" ->
                    [notes EXCEPT !.list = onNoteUpdated(@, res.note)]
              [] callback = "onNoteDeleted" ->
                    [notes EXCEPT !.list = onNoteDeleted(@, ui.last.id)]
              [] OTHER -> notes
    /\ ui' = [ui EXCEPT !.notified = {}]
    /\ UNCHANGED <<view, auth, app, cryptoVars, dbVars, res, held, hist,
                   procVars>>

NextMirror ==
    \/ Tick
    \/ SavedEarlier
    \/ NoteListMounts
    \/ NoteListCalls("loadNotes", 0)
    \/ NoteListCalls("addNote", 0)
    \/ \E id \in Ids : NoteListCalls("updateNote", id)
    \/ \E id \in Ids : NoteListCalls("deleteNote", id)
    \/ LoadNotesAwaits(1, 1)
    \/ SaveAwaited(1, 1)
    \/ GetAwaited(1, 1)
    \/ DeleteAwaited
    \/ PresenterSettles
    \/ NoteListRenders

SpecMirror == InitStore /\ [][NextMirror]_vars

\* what getAllNotes() may resolve with at this moment
Listings ==
    {DecryptAll(results,
                getEncryptionKey(keychain, saltStore, aesPresent, 1, 1).key,
                aesPresent) : results \in OrderByUpdatedAtDesc(rows)}

(* C29: the view mirrors the store.  After loadNotes and any sequence of   *)
(* addNote, updateNote and deleteNote calls that have all settled with     *)
(* their callback applied, the list of notes the list view holds has the   *)
(* same notes, in the same order, as getAllNotes() would return at that    *)
(* moment (most recently updated first).                                   *)
C29_ViewMirrorsStore ==
    (notes.loaded /\ ui.pending.op = "none" /\ ui.notified = {}) =>
        notes.list \in Listings

\* the same notes, whatever their order
C29_SameNotes ==
    (notes.loaded /\ ui.pending.op = "none" /\ ui.notified = {}) =>
        \E l \in Listings :
            {notes.list[i] : i \in 1..Len(notes.list)} = {l[i] : i \in 1..Len(l)}
====
